---- MODULE Spec2Model ----
(***************************************************************************)
(* Vocabulary store and review scheduler of Raycast-Easydict.              *)
(*                                                                         *)
(* DatabaseManager (database.ts, the sqlite3-CLI version with the          *)
(* vocabulary_progress table) is modelled as two tables, each a set of     *)
(* rows; VocabularyManager (wordbook.ts) as asynchronous calls that run in *)
(* caller slots and interleave at every await that reaches the database.   *)
(* Spec is the review scheduler over one word; SpecStore the word list of  *)
(* the same store over two spellings of a word. The two other word lists   *)
(* of the repository are modelled next to it: SpecFile is the text-file    *)
(* VocabularyManager (word.txt, a sequence of items) and SpecNative the    *)
(* DatabaseManager over better-sqlite3 (synchronous statements).           *)
(*                                                                         *)
(* Time is counted in seconds since an arbitrary origin (the source uses   *)
(* milliseconds; every interval of the ladder is a whole number of         *)
(* seconds, and 30 days in milliseconds does not fit TLC's integers).      *)
(***************************************************************************)
EXTENDS Integers, Sequences, FiniteSets, Bags, TLC

\* ---------------------------------------------------------------- bounds
\* A behaviour is either a long history of reviews made one after the other,
\* or a short one in which calls overlap and database accesses fail.
MaxReviews == 6        \* applyReviewResult calls of the long history
MaxRacingReviews == 2  \* applyReviewResult calls of the short one
MaxEdits == 2          \* add / remove / clearAll / clearReviewProgress calls
MaxTicks == 1          \* advances of the wall clock
MaxFailures == 1       \* database accesses that fail with an I/O error
MaxOverlaps == 1       \* calls started while another call is in flight

Words == {"cat"}
Spellings == {"cat", "Cat"}  \* one word stored under two spellings
QueueWords == {"cat", "dog"}  \* the entries of the review queue
StatsWords == {"cat", "dog", "eel"}  \* the entries the statistics count
AllWords == Words \cup Spellings \cup QueueWords \cup StatsWords
QueueResults == {"forget"}  \* the answers given before a queue
QueueTickSteps == {1, 5 * 60}  \* a second, and the shortest review interval
Translations == {"tr"}
TickSteps == {1}

Budgets ==
  { [ reviews |-> MaxReviews, edits |-> 1, ticks |-> MaxTicks,
      failures |-> 0, overlaps |-> 0 ],
    [ reviews |-> MaxRacingReviews, edits |-> MaxEdits, ticks |-> MaxTicks - 1,
      failures |-> 0, overlaps |-> MaxOverlaps ],
    [ reviews |-> MaxRacingReviews, edits |-> MaxEdits, ticks |-> MaxTicks - 1,
      failures |-> MaxFailures, overlaps |-> 0 ] }

\* A history of the word list, over two spellings of a word: either edits
\* and a review made one after the other, with database accesses that fail,
\* or edits that overlap.
StoreBudgets ==
  { [ reviews |-> MaxRacingReviews - 1, edits |-> MaxEdits + 1,
      ticks |-> MaxTicks - 1, failures |-> MaxFailures, overlaps |-> 0 ],
    [ reviews |-> 0, edits |-> MaxEdits, ticks |-> MaxTicks,
      failures |-> 0, overlaps |-> MaxOverlaps ] }

\* ------------------------------------------------------- program constants
REVIEW_INTERVALS ==
  << 5 * 60,
     12 * 60 * 60,
     24 * 60 * 60,
     3 * 24 * 60 * 60,
     7 * 24 * 60 * 60,
     30 * 24 * 60 * 60 >>

MAX_PROFICIENCY == Len(REVIEW_INTERVALS) - 1

ReviewResult == {"remember", "hard", "forget"}

\* SQL NULL / JavaScript undefined for an optional timestamp.
NULL == -1

Min(a, b) == IF a < b THEN a ELSE b
Max(a, b) == IF a > b THEN a ELSE b

\* ------------------------------------------------------------- the state
VARIABLES
  vocabulary,           \* table vocabulary: set of rows
  vocabulary_progress,  \* table vocabulary_progress: set of rows
  clock,                \* Date.now(), in seconds
  pending,              \* bag of the calls in flight, each suspended at an await
  returned,             \* the call that returned last, with what it returned
  rememberRun,          \* history: per word, the (proficiency, interval)
                        \* pairs of the run of back-to-back "remember"
                        \* results that produced its progress row
  added,                \* history: the words whose addVocabulary returned
                        \* true with no removeVocabulary or
                        \* clearAllVocabulary call since
  wordbook,             \* ~/.easydict/word.txt of the text-file store: the
                        \* sequence of its lines, each a vocabulary item
  reviewsLeft, editsLeft, ticksLeft, failuresLeft, overlapsLeft,
                        \* what the bounds leave
  initialized,          \* DatabaseManager.initialized
  schema,               \* the database file: bag of its tables, indices
                        \* and triggers
  initRuns,             \* history: the runs of ensureInitialized that did
                        \* the whole initialization
  reviewedAt,           \* history: per word, the Date.now() of the last
                        \* applyReviewResult that returned its value
  state                 \* the ReviewState of VocabularyReviewCommand

vars == << vocabulary, vocabulary_progress, clock, pending, returned,
           rememberRun, added, wordbook, reviewsLeft, editsLeft, ticksLeft,
           failuresLeft, overlapsLeft, initialized, schema, initRuns,
           reviewedAt, state >>
initVars == << initialized, schema, initRuns >>

\* useState<ReviewState>({ queue: [], index: 0, showAnswer: false,
\* isLoading: true, isProcessing: false }); stats is a set, empty while
\* undefined.
InitialState ==
  [ queue |-> << >>, stats |-> {}, index |-> 0, showAnswer |-> FALSE,
    isLoading |-> TRUE, isProcessing |-> FALSE ]

\* The objects the three statements of ensureInitialized create.
Statement(pc) ==
  IF pc = "create_table" THEN {"vocabulary"}
  ELSE IF pc = "create_index"
  THEN {"idx_vocabulary_word", "idx_vocabulary_created_at"}
  ELSE IF pc = "create_progress"
  THEN {"vocabulary_progress", "idx_vocabulary_progress_word",
        "idx_vocabulary_progress_next_review", "trg_vocabulary_delete"}
  ELSE {}
FullSchema ==
  Statement("create_table") \cup Statement("create_index")
    \cup Statement("create_progress")

\* The store after a first operation has initialized it.
Initialized ==
  /\ initialized = TRUE
  /\ schema = SetToBag(FullSchema)
  /\ initRuns = 1

\* getDefaultProgress(word)
getDefaultProgress(word) ==
  [ word |-> word, proficiency |-> 0, reviewCount |-> 0, successCount |-> 0,
    failCount |-> 0, lastReviewedAt |-> NULL, nextReviewAt |-> NULL ]

\* The locals of a call; NoCall before any call has returned.
NoCall ==
  [ pc |-> "none", op |-> "none", word |-> "", translation |-> "",
    result |-> "none", found |-> FALSE, progress |-> getDefaultProgress(""),
    now |-> 0, updatedProgress |-> getDefaultProgress(""), ret |-> "none",
    \* history: whether a database access of the call failed, and the
    \* rows of the call's word as its last database access found them
    ioError |-> FALSE, entryBefore |-> {}, progressBefore |-> {},
    \* history: the entries of the word when the call was made
    entryAtCall |-> {},
    \* text-file store: filteredItems of removeVocabulary
    filteredItems |-> << >>,
    \* the number or the list a read returned
    count |-> 0, list |-> << >>,
    \* getReviewQueue: limit (a number in tenths, or not a number), onlyDue
    \* and safeLimit
    limit |-> [ kind |-> "finite", tenths |-> 0 ], onlyDue |-> FALSE,
    safeLimit |-> 0,
    \* history of the call's ensureInitialized: the schema statements it
    \* issued, whether it failed, and whether it was called after a run
    \* that did the whole initialization
    issued |-> 0, initFailed |-> FALSE, afterInit |-> FALSE,
    \* getReviewStatistics: the three counts; history: whether a table
    \* changed between the call and one of its reads
    stats |-> [ total |-> 0, due |-> 0, mastered |-> 0 ], mutated |-> FALSE,
    \* history of applyReviewResult: the progress rows of the word when
    \* getReviewProgress was executed
    progressAtRead |-> {},
    \* loadQueue: where its getReviewQueue and its getReviewStatistics are
    queuePc |-> "none", statsPc |-> "none" ]

\* ------------------------------------------------------------ SQL helpers
\* row.x ? Number(row.x) : undefined
OptNumber(x) == IF x = NULL \/ x = 0 THEN NULL ELSE x

ProgressRows(word) == { r \in vocabulary_progress : r.word = word }
VocabularyRows(word) == { r \in vocabulary : r.word = word }

\* Mutant: the word counts as stored from its second row on.
isVocabularyExists_MoreThanOne(word, ok) ==
  ok /\ Cardinality(VocabularyRows(word)) > 1

\* isVocabularyExists(word): SELECT COUNT(*) ... WHERE word = '...' > 0, and
\* false when the read fails.
isVocabularyExists(word, ok) == ok /\ Cardinality(VocabularyRows(word)) > 0

\* Mutant: rows are inserted into vocabulary_progress with foreign keys off.
ForeignKeyHolds_Off(word) == TRUE

\* PRAGMA foreign_keys = ON and FOREIGN KEY (word) REFERENCES vocabulary(word):
\* a progress row for `word` is inserted only when the word has an entry;
\* ON CONFLICT(word) DO UPDATE leaves the key of a row already there as it is.
ForeignKeyHolds(word) == ProgressRows(word) # {} \/ VocabularyRows(word) # {}

\* Mutant: deleting an entry leaves its progress row behind.
Cascade_None(gone) == {}

\* The progress rows that go when the vocabulary rows `gone` are deleted
\* (ON DELETE CASCADE, trg_vocabulary_delete).
Cascade(gone) == { r \in vocabulary_progress : r.word \in { v.word : v \in gone } }

\* The history is forgotten for the words whose progress rows are deleted.
ForgetRuns(rows) ==
  [ w \in AllWords |-> IF w \in { r.word : r \in rows } THEN << >> ELSE rememberRun[w] ]

\* A database access succeeds, or fails with an I/O error.
Access(ok) ==
  /\ ~ok => failuresLeft > 0
  /\ failuresLeft' = IF ok THEN failuresLeft ELSE failuresLeft - 1

\* The tables the statement of an operation names.
TablesOf(op) ==
  IF op \in {"queue", "stats"} THEN {"vocabulary", "vocabulary_progress"}
  ELSE {"vocabulary"}

\* The statement of call c is executed: it fails when a table it names is
\* missing, and otherwise succeeds or fails with an I/O error.
Query(c, ok) ==
  IF TablesOf(c.op) \subseteq BagToSet(schema)
  THEN Access(ok)
  ELSE ~ok /\ UNCHANGED failuresLeft

\* A call starts and suspends at its first await / resumes from an await /
\* returns.
Suspend(c) ==
  /\ pending # EmptyBag => overlapsLeft > 0
  /\ overlapsLeft' = IF pending # EmptyBag THEN overlapsLeft - 1 ELSE overlapsLeft
  /\ pending' = pending (+) SetToBag({c})
Resume(c, d) == pending' = (pending (-) SetToBag({c})) (+) SetToBag({d})
Return(c, d) == /\ pending' = pending (-) SetToBag({c})
                /\ returned' = d

\* ------------------------------------------------------ review scheduler
\* Mutant: the upper bound of the proficiency is not enforced.
NextProficiency_NoCap(proficiency, result) ==
  IF result = "remember" THEN proficiency + 1
  ELSE IF result = "hard" THEN proficiency + 1
  ELSE Max(proficiency - 1, 0)

\* Mutant: "hard" leaves the proficiency as it is.
NextProficiency_HardKeeps(proficiency, result) ==
  IF result = "remember" THEN Min(proficiency + 1, MAX_PROFICIENCY)
  ELSE IF result = "hard" THEN proficiency
  ELSE Max(proficiency - 1, 0)

\* applyReviewResult: the new proficiency.
NextProficiency(proficiency, result) ==
  IF result = "remember" THEN Min(proficiency + 1, MAX_PROFICIENCY)
  ELSE IF result = "hard" THEN Min(proficiency + 1, MAX_PROFICIENCY)
  ELSE Max(proficiency - 1, 0)

\* Mutant: "forget" does not fall back to the first interval.
IntervalIndex_ForgetByProficiency(proficiency, result) ==
  Min(proficiency, MAX_PROFICIENCY)

\* Mutant: the ladder is indexed by the proficiency before the review.
IntervalIndex_Previous(proficiency, result) ==
  IF result = "forget" THEN 0 ELSE Min(proficiency, MAX_PROFICIENCY) - 1

\* Mutant: "hard" takes the interval one step below that of "remember".
IntervalIndex_HardShorter(proficiency, result) ==
  IF result = "forget" THEN 0
  ELSE IF result = "hard" THEN Max(Min(proficiency, MAX_PROFICIENCY) - 1, 0)
  ELSE Min(proficiency, MAX_PROFICIENCY)

\* applyReviewResult: the ladder index (0-based, as in the source).
IntervalIndex(proficiency, result) ==
  IF result = "forget" THEN 0 ELSE Min(proficiency, MAX_PROFICIENCY)

\* Mutant: every result counts as a success.
UpdatedProgress_SuccessAlways(word, progress, result, now) ==
  LET proficiency == NextProficiency(progress.proficiency, result)
      intervalIndex == IntervalIndex(proficiency, result)
      nextReviewAt == now + REVIEW_INTERVALS[intervalIndex + 1]
  IN [ word |-> word,
       proficiency |-> proficiency,
       reviewCount |-> progress.reviewCount + 1,
       successCount |-> progress.successCount + 1,
       failCount |-> progress.failCount + (IF result = "forget" THEN 1 ELSE 0),
       lastReviewedAt |-> now,
       nextReviewAt |-> nextReviewAt ]

\* Mutant: a forgotten word is not counted as reviewed.
UpdatedProgress_ForgetUncounted(word, progress, result, now) ==
  LET proficiency == NextProficiency(progress.proficiency, result)
      intervalIndex == IntervalIndex(proficiency, result)
      nextReviewAt == now + REVIEW_INTERVALS[intervalIndex + 1]
  IN [ word |-> word,
       proficiency |-> proficiency,
       reviewCount |-> progress.reviewCount + (IF result = "forget" THEN 0 ELSE 1),
       successCount |-> progress.successCount + (IF result # "forget" THEN 1 ELSE 0),
       failCount |-> progress.failCount + (IF result = "forget" THEN 1 ELSE 0),
       lastReviewedAt |-> now,
       nextReviewAt |-> nextReviewAt ]

\* Mutant: the interval is added to the review time already scheduled.
UpdatedProgress_ExtendsSchedule(word, progress, result, now) ==
  LET proficiency == NextProficiency(progress.proficiency, result)
      intervalIndex == IntervalIndex(proficiency, result)
      nextReviewAt == Max(now, progress.nextReviewAt) + REVIEW_INTERVALS[intervalIndex + 1]
  IN [ word |-> word,
       proficiency |-> proficiency,
       reviewCount |-> progress.reviewCount + 1,
       successCount |-> progress.successCount + (IF result # "forget" THEN 1 ELSE 0),
       failCount |-> progress.failCount + (IF result = "forget" THEN 1 ELSE 0),
       lastReviewedAt |-> now,
       nextReviewAt |-> nextReviewAt ]

UpdatedProgress_DueAtOnce(word, progress, result, now) ==
  LET proficiency == NextProficiency(progress.proficiency, result)
      intervalIndex == IntervalIndex(proficiency, result)
      nextReviewAt == now
  IN [ word |-> word,
       proficiency |-> proficiency,
       reviewCount |-> progress.reviewCount + 1,
       successCount |-> progress.successCount + (IF result # "forget" THEN 1 ELSE 0),
       failCount |-> progress.failCount + (IF result = "forget" THEN 1 ELSE 0),
       lastReviewedAt |-> now,
       nextReviewAt |-> nextReviewAt ]

\* applyReviewResult: updatedProgress, from the progress read and Date.now().
UpdatedProgress(word, progress, result, now) ==
  LET proficiency == NextProficiency(progress.proficiency, result)
      intervalIndex == IntervalIndex(proficiency, result)
      nextReviewAt == now + REVIEW_INTERVALS[intervalIndex + 1]
  IN [ word |-> word,
       proficiency |-> proficiency,
       reviewCount |-> progress.reviewCount + 1,
       successCount |-> progress.successCount + (IF result # "forget" THEN 1 ELSE 0),
       failCount |-> progress.failCount + (IF result = "forget" THEN 1 ELSE 0),
       lastReviewedAt |-> now,
       nextReviewAt |-> nextReviewAt ]

\* DatabaseManager.getReviewProgress: the row as the caller sees it.
ReadProgress(row) ==
  [ word |-> row.word,
    proficiency |-> row.proficiency,
    reviewCount |-> row.reviewCount,
    successCount |-> row.successCount,
    failCount |-> row.failCount,
    lastReviewedAt |-> OptNumber(row.lastReviewedAt),
    nextReviewAt |-> OptNumber(row.nextReviewAt) ]

\* The history of a run of "remember" results, after a successful upsert by
\* a call that read `found`/`progress` and wrote `updated`.
NextRememberRun(run, stored, found, progress, result, updated) ==
  LET entry == << updated.proficiency, updated.nextReviewAt - updated.lastReviewedAt >>
      fresh == ~found /\ stored = {}
      chained == found /\ stored = {progress} /\ run # << >> /\ Len(run) < 3
  IN IF result = "remember" /\ fresh THEN << entry >>
     ELSE IF result = "remember" /\ chained THEN Append(run, entry)
     ELSE << >>

\* getReviewProgress(word): the progress read from the word's row, as a set
\* of at most one value; the empty set is undefined (no row, or the read
\* failed).
getReviewProgress(word, ok) ==
  IF ok THEN { ReadProgress(r) : r \in ProgressRows(word) } ELSE {}

\* ---------------------------------------------------------------- Init
Init ==
  /\ vocabulary = {}
  /\ vocabulary_progress = {}
  /\ clock = 1
  /\ pending = EmptyBag
  /\ returned = NoCall
  /\ rememberRun = [ w \in AllWords |-> << >> ]
  /\ added = {}
  /\ wordbook = << >>
  /\ \E b \in Budgets :
       /\ reviewsLeft = b.reviews
       /\ editsLeft = b.edits
       /\ ticksLeft = b.ticks
       /\ failuresLeft = b.failures
       /\ overlapsLeft = b.overlaps
  /\ Initialized
  /\ reviewedAt = [ w \in AllWords |-> NULL ]
  /\ state = InitialState

\* Time passes.
Tick(d) ==
  /\ ticksLeft > 0
  /\ clock' = clock + d
  /\ ticksLeft' = ticksLeft - 1
  /\ UNCHANGED << vocabulary, vocabulary_progress, pending, returned,
                  rememberRun, reviewsLeft, editsLeft, failuresLeft, overlapsLeft >>
  /\ UNCHANGED << added, wordbook >>
  /\ UNCHANGED initVars
  /\ UNCHANGED reviewedAt
  /\ UNCHANGED state

\* ------------------------------------------------- applyReviewResult
\* VocabularyManager.applyReviewResult is entered: getReviewProgress is
\* awaited.
ApplyCall(w, r) ==
  /\ reviewsLeft > 0
  /\ Suspend([ NoCall EXCEPT !.pc = "apply_read", !.op = "apply",
                             !.word = w, !.result = r ])
  /\ reviewsLeft' = reviewsLeft - 1
  /\ UNCHANGED << vocabulary, vocabulary_progress, clock, returned,
                  rememberRun, editsLeft, ticksLeft, failuresLeft >>
  /\ UNCHANGED << added, wordbook >>
  /\ UNCHANGED initVars
  /\ UNCHANGED reviewedAt
  /\ UNCHANGED state

\* getReviewProgress answers (undefined when the row is missing or the read
\* fails); the continuation takes Date.now(), builds updatedProgress and
\* awaits upsertReviewProgress.
ApplyRead(c, ok) ==
  /\ BagIn(c, pending)
  /\ c.pc = "apply_read"
  /\ Access(ok)
  /\ LET current == getReviewProgress(c.word, ok)
         found == current # {}
         progress == IF found THEN CHOOSE r \in current : TRUE
                     ELSE getDefaultProgress(c.word)
     IN Resume(c, [ c EXCEPT !.pc = "apply_write",
                             !.found = found,
                             !.progress = progress,
                             !.now = clock,
                             !.ioError = ~ok,
                             !.progressAtRead = ProgressRows(c.word),
                             !.updatedProgress =
                                UpdatedProgress(c.word, progress, c.result, clock) ])
  /\ UNCHANGED << vocabulary, vocabulary_progress, clock, returned,
                  rememberRun, reviewsLeft, editsLeft, ticksLeft, overlapsLeft >>
  /\ UNCHANGED << added, wordbook >>
  /\ UNCHANGED initVars
  /\ UNCHANGED reviewedAt
  /\ UNCHANGED state

ApplyWrite_ReturnsValue(c, ok) ==
  /\ BagIn(c, pending)
  /\ c.pc = "apply_write"
  /\ Access(ok)
  /\ LET stored == ProgressRows(c.word)
         success == ok /\ ForeignKeyHolds(c.word)
         d == [ c EXCEPT !.pc = "done", !.ioError = c.ioError \/ ~ok,
                         !.entryBefore = VocabularyRows(c.word),
                         !.progressBefore = stored ]
     IN IF success
        THEN /\ vocabulary_progress' =
                  (vocabulary_progress \ stored) \cup {c.updatedProgress}
             /\ rememberRun' =
                  [ rememberRun EXCEPT ![c.word] =
                      NextRememberRun(rememberRun[c.word], stored, c.found,
                                      c.progress, c.result, c.updatedProgress) ]
             /\ reviewedAt' = [ reviewedAt EXCEPT ![c.word] = c.now ]
             /\ Return(c, [ d EXCEPT !.ret = "value" ])
        ELSE /\ Return(c, [ d EXCEPT !.ret = "value" ])
             /\ UNCHANGED << vocabulary_progress, rememberRun, reviewedAt >>
  /\ UNCHANGED << vocabulary, clock, reviewsLeft, editsLeft, ticksLeft, overlapsLeft >>
  /\ UNCHANGED << added, wordbook >>
  /\ UNCHANGED initVars
  /\ UNCHANGED state

\* upsertReviewProgress executes: INSERT ... ON CONFLICT(word) DO UPDATE,
\* with foreign keys on; applyReviewResult returns updatedProgress on
\* success and undefined otherwise.
ApplyWrite(c, ok) ==
  /\ BagIn(c, pending)
  /\ c.pc = "apply_write"
  /\ Access(ok)
  /\ LET stored == ProgressRows(c.word)
         success == ok /\ ForeignKeyHolds(c.word)
         d == [ c EXCEPT !.pc = "done", !.ioError = c.ioError \/ ~ok,
                         !.entryBefore = VocabularyRows(c.word),
                         !.progressBefore = stored ]
     IN IF success
        THEN /\ vocabulary_progress' =
                  (vocabulary_progress \ stored) \cup {c.updatedProgress}
             /\ rememberRun' =
                  [ rememberRun EXCEPT ![c.word] =
                      NextRememberRun(rememberRun[c.word], stored, c.found,
                                      c.progress, c.result, c.updatedProgress) ]
             /\ reviewedAt' = [ reviewedAt EXCEPT ![c.word] = c.now ]
             /\ Return(c, [ d EXCEPT !.ret = "value" ])
        ELSE /\ Return(c, [ d EXCEPT !.ret = "undefined" ])
             /\ UNCHANGED << vocabulary_progress, rememberRun, reviewedAt >>
  /\ UNCHANGED << vocabulary, clock, reviewsLeft, editsLeft, ticksLeft, overlapsLeft >>
  /\ UNCHANGED << added, wordbook >>
  /\ UNCHANGED initVars
  /\ UNCHANGED state

\* ------------------------------------------------------ addVocabulary
\* VocabularyManager.addVocabulary is entered: isVocabularyExists is awaited.
AddCall(w, t) ==
  /\ editsLeft > 0
  /\ Suspend([ NoCall EXCEPT !.pc = "add_exists", !.op = "add",
                             !.word = w, !.translation = t,
                             !.entryAtCall = VocabularyRows(w) ])
  /\ editsLeft' = editsLeft - 1
  /\ UNCHANGED << vocabulary, vocabulary_progress, clock, returned,
                  rememberRun, reviewsLeft, ticksLeft, failuresLeft >>
  /\ UNCHANGED << added, wordbook >>
  /\ UNCHANGED initVars
  /\ UNCHANGED reviewedAt
  /\ UNCHANGED state

\* isVocabularyExists answers (false when the read fails); if the word is
\* absent DatabaseManager.addVocabulary takes Date.now() and awaits the write.
AddExists(c, ok) ==
  /\ BagIn(c, pending)
  /\ c.pc = "add_exists"
  /\ Access(ok)
  /\ LET exists == isVocabularyExists(c.word, ok)
     IN IF exists
        THEN Return(c, [ c EXCEPT !.pc = "done", !.ret = "false",
                                  !.entryBefore = VocabularyRows(c.word),
                                  !.progressBefore = ProgressRows(c.word) ])
        ELSE /\ Resume(c, [ c EXCEPT !.pc = "add_insert", !.now = clock,
                                     !.ioError = ~ok ])
             /\ UNCHANGED returned
  /\ UNCHANGED << vocabulary, vocabulary_progress, clock, rememberRun,
                  reviewsLeft, editsLeft, ticksLeft, overlapsLeft >>
  /\ UNCHANGED << added, wordbook >>
  /\ UNCHANGED initVars
  /\ UNCHANGED reviewedAt
  /\ UNCHANGED state

\* Mutant: the insert creates the default progress row of the word as well.
AddInsert_CreatesProgress(c, ok) ==
  /\ BagIn(c, pending)
  /\ c.pc = "add_insert"
  /\ Query(c, ok)
  /\ LET gone == VocabularyRows(c.word)
         row == [ word |-> c.word, translation |-> c.translation,
                  created_at |-> c.now, updated_at |-> c.now ]
         d == [ c EXCEPT !.pc = "done", !.ioError = c.ioError \/ ~ok,
                         !.entryBefore = gone,
                         !.progressBefore = ProgressRows(c.word) ]
     IN IF ok
        THEN /\ vocabulary' = (vocabulary \ gone) \cup {row}
             /\ vocabulary_progress' =
                  (vocabulary_progress \ Cascade(gone))
                    \cup {getDefaultProgress(c.word)}
             /\ rememberRun' = ForgetRuns(Cascade(gone))
             /\ added' = added \cup {c.word}
             /\ Return(c, [ d EXCEPT !.ret = "true" ])
        ELSE /\ Return(c, [ d EXCEPT !.ret = "false" ])
             /\ UNCHANGED << vocabulary, vocabulary_progress, rememberRun, added >>
  /\ UNCHANGED << clock, reviewsLeft, editsLeft, ticksLeft, overlapsLeft >>
  /\ UNCHANGED wordbook
  /\ UNCHANGED initVars
  /\ UNCHANGED reviewedAt
  /\ UNCHANGED state

\* INSERT OR REPLACE INTO vocabulary executes: a row with the same word is
\* deleted first (its progress row goes with it through the foreign key).
AddInsert(c, ok) ==
  /\ BagIn(c, pending)
  /\ c.pc = "add_insert"
  /\ Query(c, ok)
  /\ LET gone == VocabularyRows(c.word)
         row == [ word |-> c.word, translation |-> c.translation,
                  created_at |-> c.now, updated_at |-> c.now ]
         d == [ c EXCEPT !.pc = "done", !.ioError = c.ioError \/ ~ok,
                         !.entryBefore = gone,
                         !.progressBefore = ProgressRows(c.word) ]
     IN IF ok
        THEN /\ vocabulary' = (vocabulary \ gone) \cup {row}
             /\ vocabulary_progress' = vocabulary_progress \ Cascade(gone)
             /\ rememberRun' = ForgetRuns(Cascade(gone))
             /\ added' = added \cup {c.word}
             /\ Return(c, [ d EXCEPT !.ret = "true" ])
        ELSE /\ Return(c, [ d EXCEPT !.ret = "false" ])
             /\ UNCHANGED << vocabulary, vocabulary_progress, rememberRun, added >>
  /\ UNCHANGED << clock, reviewsLeft, editsLeft, ticksLeft, overlapsLeft >>
  /\ UNCHANGED wordbook
  /\ UNCHANGED initVars
  /\ UNCHANGED reviewedAt
  /\ UNCHANGED state

\* --------------------------------------------- single-statement writes
\* removeVocabulary(word): DELETE FROM vocabulary WHERE word = ...
RemoveVocabulary(w, ok) ==
  /\ editsLeft > 0
  /\ Access(ok)
  /\ LET gone == VocabularyRows(w)
         c == [ NoCall EXCEPT !.pc = "done", !.op = "remove", !.word = w,
                              !.ioError = ~ok, !.entryBefore = gone,
                              !.progressBefore = ProgressRows(w) ]
     IN IF ok
        THEN /\ vocabulary' = vocabulary \ gone
             /\ vocabulary_progress' = vocabulary_progress \ Cascade(gone)
             /\ rememberRun' = ForgetRuns(Cascade(gone))
             /\ returned' = [ c EXCEPT !.ret = "true" ]
        ELSE /\ returned' = [ c EXCEPT !.ret = "false" ]
             /\ UNCHANGED << vocabulary, vocabulary_progress, rememberRun >>
  /\ added' = added \ {w}
  /\ editsLeft' = editsLeft - 1
  /\ UNCHANGED << clock, pending, reviewsLeft, ticksLeft, overlapsLeft >>
  /\ UNCHANGED wordbook
  /\ UNCHANGED initVars
  /\ UNCHANGED reviewedAt
  /\ UNCHANGED state

\* Mutant: DELETE FROM vocabulary spares the entries that have progress.
ClearAllVocabulary_OnlyUnreviewed(ok) ==
  /\ editsLeft > 0
  /\ Access(ok)
  /\ LET c == [ NoCall EXCEPT !.pc = "done", !.op = "clearAll",
                              !.ioError = ~ok, !.entryBefore = vocabulary,
                              !.progressBefore = vocabulary_progress ]
     IN IF ok
        THEN /\ vocabulary' = { v \in vocabulary : ProgressRows(v.word) # {} }
             /\ UNCHANGED << vocabulary_progress, rememberRun >>
             /\ returned' = [ c EXCEPT !.ret = "true" ]
        ELSE /\ returned' = [ c EXCEPT !.ret = "false" ]
             /\ UNCHANGED << vocabulary, vocabulary_progress, rememberRun >>
  /\ added' = {}
  /\ editsLeft' = editsLeft - 1
  /\ UNCHANGED << clock, pending, reviewsLeft, ticksLeft, overlapsLeft >>
  /\ UNCHANGED wordbook
  /\ UNCHANGED initVars
  /\ UNCHANGED reviewedAt
  /\ UNCHANGED state

\* clearAllVocabulary(): DELETE FROM vocabulary
ClearAllVocabulary(ok) ==
  /\ editsLeft > 0
  /\ Access(ok)
  /\ LET c == [ NoCall EXCEPT !.pc = "done", !.op = "clearAll",
                              !.ioError = ~ok, !.entryBefore = vocabulary,
                              !.progressBefore = vocabulary_progress ]
     IN IF ok
        THEN /\ vocabulary' = {}
             /\ vocabulary_progress' = vocabulary_progress \ Cascade(vocabulary)
             /\ rememberRun' = ForgetRuns(Cascade(vocabulary))
             /\ returned' = [ c EXCEPT !.ret = "true" ]
        ELSE /\ returned' = [ c EXCEPT !.ret = "false" ]
             /\ UNCHANGED << vocabulary, vocabulary_progress, rememberRun >>
  /\ added' = {}
  /\ editsLeft' = editsLeft - 1
  /\ UNCHANGED << clock, pending, reviewsLeft, ticksLeft, overlapsLeft >>
  /\ UNCHANGED wordbook
  /\ UNCHANGED initVars
  /\ UNCHANGED reviewedAt
  /\ UNCHANGED state

\* clearReviewProgress(word?): one word's progress row, or every progress
\* row when the word is empty or omitted.
ClearReviewProgress(w, ok) ==
  /\ editsLeft > 0
  /\ Access(ok)
  /\ LET gone == IF w # "" THEN ProgressRows(w) ELSE vocabulary_progress
         c == [ NoCall EXCEPT !.pc = "done", !.op = "clearProgress", !.word = w,
                              !.ioError = ~ok,
                              !.entryBefore = VocabularyRows(w),
                              !.progressBefore = gone ]
     IN IF ok
        THEN /\ vocabulary_progress' = vocabulary_progress \ gone
             /\ rememberRun' = ForgetRuns(gone)
             /\ returned' = [ c EXCEPT !.ret = "true" ]
        ELSE /\ returned' = [ c EXCEPT !.ret = "false" ]
             /\ UNCHANGED << vocabulary_progress, rememberRun >>
  /\ editsLeft' = editsLeft - 1
  /\ UNCHANGED << vocabulary, clock, pending, reviewsLeft, ticksLeft, overlapsLeft >>
  /\ UNCHANGED << added, wordbook >>
  /\ UNCHANGED initVars
  /\ UNCHANGED reviewedAt
  /\ UNCHANGED state

\* ------------------------------------------------------- specification
Next ==
  \/ \E d \in TickSteps : Tick(d)
  \/ \E w \in Words, r \in ReviewResult : ApplyCall(w, r)
  \/ \E c \in BagToSet(pending), ok \in BOOLEAN : ApplyRead(c, ok)
  \/ \E c \in BagToSet(pending), ok \in BOOLEAN : ApplyWrite(c, ok)
  \/ \E w \in Words, t \in Translations : AddCall(w, t)
  \/ \E c \in BagToSet(pending), ok \in BOOLEAN : AddExists(c, ok)
  \/ \E c \in BagToSet(pending), ok \in BOOLEAN : AddInsert(c, ok)
  \/ \E w \in Words, ok \in BOOLEAN : RemoveVocabulary(w, ok)
  \/ \E ok \in BOOLEAN : ClearAllVocabulary(ok)
  \/ \E w \in Words \cup {""}, ok \in BOOLEAN : ClearReviewProgress(w, ok)

Spec == Init /\ [][Next]_vars

\* ------------------------------------------------- the word list (SQLite)
\* String.prototype.toLowerCase over the spellings.
toLowerCase(word) == IF word = "Cat" THEN "cat" ELSE word

\* VocabularyManager.isVocabularyExists(word), called on its own.
IsVocabularyExists(w, ok) ==
  /\ Access(ok)
  /\ returned' =
       [ NoCall EXCEPT !.pc = "done", !.op = "exists", !.word = w,
                       !.ioError = ~ok,
                       !.entryBefore = VocabularyRows(w),
                       !.progressBefore = ProgressRows(w),
                       !.ret = IF isVocabularyExists(w, ok) THEN "true"
                               ELSE "false" ]
  /\ UNCHANGED << vocabulary, vocabulary_progress, clock, pending, rememberRun,
                  added, wordbook, reviewsLeft, editsLeft, ticksLeft,
                  overlapsLeft >>
  /\ UNCHANGED initVars
  /\ UNCHANGED reviewedAt
  /\ UNCHANGED state

\* The sequences that list every row of a set once.
Listings(rows) ==
  { s \in [ 1..Cardinality(rows) -> rows ] :
      \A i \in DOMAIN s : \A j \in DOMAIN s : s[i] = s[j] => i = j }

\* getVocabularyCount(): SELECT COUNT(*) FROM vocabulary, 0 when it fails.
getVocabularyCount(ok) == IF ok THEN Cardinality(vocabulary) ELSE 0

\* getVocabularyList(): the entries ORDER BY created_at DESC, [] when the
\* read fails. SQL leaves the order of rows of equal created_at open: the
\* operator is the set of the lists the query can return.
getVocabularyList(ok) ==
  IF ok
  THEN LET items == { [ word |-> v.word, translation |-> v.translation,
                        timestamp |-> v.created_at ] : v \in vocabulary }
       IN { s \in Listings(items) :
              \A i \in DOMAIN s : \A j \in DOMAIN s :
                i < j => s[i].timestamp >= s[j].timestamp }
  ELSE { << >> }

\* VocabularyManager.getVocabularyCount(), called on its own.
GetVocabularyCount(ok) ==
  /\ Access(ok)
  /\ returned' = [ NoCall EXCEPT !.pc = "done", !.op = "count",
                                 !.ioError = ~ok,
                                 !.count = getVocabularyCount(ok) ]
  /\ UNCHANGED << vocabulary, vocabulary_progress, clock, pending, rememberRun,
                  added, wordbook, reviewsLeft, editsLeft, ticksLeft,
                  overlapsLeft >>
  /\ UNCHANGED initVars
  /\ UNCHANGED reviewedAt
  /\ UNCHANGED state

\* VocabularyManager.getVocabularyList(), called on its own.
GetVocabularyList(ok) ==
  /\ Access(ok)
  /\ \E list \in getVocabularyList(ok) :
       returned' = [ NoCall EXCEPT !.pc = "done", !.op = "list",
                                   !.ioError = ~ok, !.list = list ]
  /\ UNCHANGED << vocabulary, vocabulary_progress, clock, pending, rememberRun,
                  added, wordbook, reviewsLeft, editsLeft, ticksLeft,
                  overlapsLeft >>
  /\ UNCHANGED initVars
  /\ UNCHANGED reviewedAt
  /\ UNCHANGED state

InitStore ==
  /\ vocabulary = {}
  /\ vocabulary_progress = {}
  /\ clock = 1
  /\ pending = EmptyBag
  /\ returned = NoCall
  /\ rememberRun = [ w \in AllWords |-> << >> ]
  /\ added = {}
  /\ wordbook = << >>
  /\ \E b \in StoreBudgets :
       /\ reviewsLeft = b.reviews
       /\ editsLeft = b.edits
       /\ ticksLeft = b.ticks
       /\ failuresLeft = b.failures
       /\ overlapsLeft = b.overlaps
  /\ Initialized
  /\ reviewedAt = [ w \in AllWords |-> NULL ]
  /\ state = InitialState

NextStore ==
  \/ \E d \in TickSteps : Tick(d)
  \/ \E w \in Spellings, r \in ReviewResult : ApplyCall(w, r)
  \/ \E c \in BagToSet(pending), ok \in BOOLEAN : ApplyRead(c, ok)
  \/ \E c \in BagToSet(pending), ok \in BOOLEAN : ApplyWrite(c, ok)
  \/ \E w \in Spellings, t \in Translations : AddCall(w, t)
  \/ \E c \in BagToSet(pending), ok \in BOOLEAN : AddExists(c, ok)
  \/ \E c \in BagToSet(pending), ok \in BOOLEAN : AddInsert(c, ok)
  \/ \E w \in Spellings, ok \in BOOLEAN : RemoveVocabulary(w, ok)
  \/ \E ok \in BOOLEAN : ClearAllVocabulary(ok)
  \/ \E w \in Spellings, ok \in BOOLEAN : IsVocabularyExists(w, ok)
  \/ \E ok \in BOOLEAN : GetVocabularyCount(ok)
  \/ \E ok \in BOOLEAN : GetVocabularyList(ok)

SpecStore == InitStore /\ [][NextStore]_vars

\* ------------------------------------------------------ the review queue
\* The limit argument: a finite number, given in tenths (15 is 1.5), NaN,
\* an infinity, or undefined when the argument is omitted.
Finite(tenths) == [ kind |-> "finite", tenths |-> tenths ]
NaN == [ kind |-> "NaN", tenths |-> 0 ]
Infinity == [ kind |-> "Infinity", tenths |-> 0 ]
Undefined == [ kind |-> "undefined", tenths |-> 0 ]

QueueLimits ==
  { Finite(-10), Finite(5), Finite(15), Finite(2005), NaN, Infinity,
    Undefined }

SafeLimit_Unclamped(limit) ==
  LET given == IF limit.kind = "undefined" THEN Finite(200) ELSE limit
  IN IF given.kind = "finite" THEN given.tenths \div 10 ELSE 20

\* The calls made: the due queue with every limit, the whole queue with a
\* limit that cuts it off and with the default limit.
QueueArguments ==
  { [ limit |-> limit, onlyDue |-> TRUE ] : limit \in QueueLimits }
    \cup { [ limit |-> Finite(15), onlyDue |-> FALSE ],
           [ limit |-> Undefined, onlyDue |-> FALSE ] }

\* limit = 20 by default;
\* Math.max(1, Math.min(Number.isFinite(limit) ? Math.floor(limit) : 20, 200))
SafeLimit(limit) ==
  LET given == IF limit.kind = "undefined" THEN Finite(200) ELSE limit
  IN Max(1, Min(IF given.kind = "finite" THEN given.tenths \div 10 ELSE 20,
                200))

Joined_Inner ==
  { [ v |-> v, p |-> ProgressRows(v.word) ] :
      v \in { e \in vocabulary : ProgressRows(e.word) # {} } }

\* FROM vocabulary v LEFT JOIN vocabulary_progress p ON v.word = p.word:
\* each entry with its progress rows (none or one).
Joined == { [ v |-> v, p |-> ProgressRows(v.word) ] : v \in vocabulary }

\* p.next_review_at, NULL when the entry has no progress row.
NextReviewAtOf(j) ==
  IF j.p = {} THEN NULL ELSE (CHOOSE r \in j.p : TRUE).nextReviewAt

IsDue_Always(j, now) == TRUE

\* WHERE (p.next_review_at IS NULL OR p.next_review_at <= now)
IsDue(j, now) == NextReviewAtOf(j) = NULL \/ NextReviewAtOf(j) <= now

\* COALESCE(p.next_review_at, v.created_at)
OrderKey(j) ==
  IF NextReviewAtOf(j) = NULL THEN j.v.created_at ELSE NextReviewAtOf(j)

InOrder_OldestFirst(a, b) ==
  \/ OrderKey(a) < OrderKey(b)
  \/ OrderKey(a) = OrderKey(b) /\ a.v.created_at <= b.v.created_at

\* ORDER BY COALESCE(p.next_review_at, v.created_at) ASC, v.created_at DESC
InOrder(a, b) ==
  \/ OrderKey(a) < OrderKey(b)
  \/ OrderKey(a) = OrderKey(b) /\ a.v.created_at >= b.v.created_at

\* The selected columns of a joined row, as the map over the rows turns
\* them into a VocabularyReviewItem.
ReviewItem(j) ==
  LET p == IF j.p = {} THEN getDefaultProgress(j.v.word)
           ELSE CHOOSE r \in j.p : TRUE
  IN [ word |-> j.v.word, translation |-> j.v.translation,
       timestamp |-> j.v.created_at,
       proficiency |-> p.proficiency, reviewCount |-> p.reviewCount,
       successCount |-> p.successCount, failCount |-> p.failCount,
       lastReviewedAt |-> OptNumber(p.lastReviewedAt),
       nextReviewAt |-> OptNumber(p.nextReviewAt) ]

\* getReviewQueue(limit, onlyDue) with its Date.now() = now: the lists the
\* query can return (SQL leaves the order of rows equal in both keys open),
\* [] when the read fails.
getReviewQueue(limit, onlyDue, now, ok) ==
  IF ok
  THEN LET selected == { j \in Joined : onlyDue => IsDue(j, now) }
           ordered == { s \in Listings(selected) :
                          \A i \in DOMAIN s : \A k \in DOMAIN s :
                            i < k => InOrder(s[i], s[k]) }
       IN { [ i \in 1..Min(SafeLimit(limit), Len(s)) |-> ReviewItem(s[i]) ] :
              s \in ordered }
  ELSE { << >> }

\* VocabularyManager.getReviewQueue is entered: safeLimit and now are
\* computed and the query is awaited.
QueueCall(limit, onlyDue) ==
  /\ Suspend([ NoCall EXCEPT !.pc = "queue_read", !.op = "queue",
                             !.limit = limit, !.onlyDue = onlyDue,
                             !.safeLimit = SafeLimit(limit),
                             !.now = clock ])
  /\ editsLeft > 0
  /\ editsLeft' = editsLeft - 1
  /\ UNCHANGED << vocabulary, vocabulary_progress, clock, returned,
                  rememberRun, added, wordbook, reviewsLeft, ticksLeft,
                  failuresLeft >>
  /\ UNCHANGED initVars
  /\ UNCHANGED reviewedAt
  /\ UNCHANGED state

QueueRead_Rethrows(c, ok) ==
  /\ BagIn(c, pending)
  /\ c.pc = "queue_read"
  /\ Query(c, ok)
  /\ \E list \in getReviewQueue(c.limit, c.onlyDue, c.now, ok) :
       Return(c, [ c EXCEPT !.pc = "done", !.ioError = ~ok,
                            !.entryBefore = vocabulary,
                            !.progressBefore = vocabulary_progress,
                            !.list = list,
                            !.ret = IF ok THEN "value" ELSE "thrown" ])
  /\ UNCHANGED << vocabulary, vocabulary_progress, clock, rememberRun, added,
                  wordbook, reviewsLeft, editsLeft, ticksLeft, overlapsLeft >>
  /\ UNCHANGED initVars
  /\ UNCHANGED reviewedAt
  /\ UNCHANGED state

\* The query executes and its rows are returned.
QueueRead(c, ok) ==
  /\ BagIn(c, pending)
  /\ c.pc = "queue_read"
  /\ Query(c, ok)
  /\ \E list \in getReviewQueue(c.limit, c.onlyDue, c.now, ok) :
       Return(c, [ c EXCEPT !.pc = "done", !.ioError = ~ok,
                            !.entryBefore = vocabulary,
                            !.progressBefore = vocabulary_progress,
                            !.list = list,
                            !.ret = IF ok THEN "value" ELSE "empty" ])
  /\ UNCHANGED << vocabulary, vocabulary_progress, clock, rememberRun, added,
                  wordbook, reviewsLeft, editsLeft, ticksLeft, overlapsLeft >>
  /\ UNCHANGED initVars
  /\ UNCHANGED reviewedAt
  /\ UNCHANGED state

\* The runs of the review queue: two entries are added, one is reviewed,
\* time passes and the queue is read; or the read of the queue fails.
QueueBudgets ==
  { [ reviews |-> MaxRacingReviews - 1, edits |-> MaxEdits + 1,
      ticks |-> MaxTicks, failures |-> 0, overlaps |-> 0 ],
    [ reviews |-> 0, edits |-> MaxEdits, ticks |-> 0,
      failures |-> MaxFailures, overlaps |-> 0 ] }

InitQueue ==
  /\ vocabulary = {}
  /\ vocabulary_progress = {}
  /\ clock = 1
  /\ pending = EmptyBag
  /\ returned = NoCall
  /\ rememberRun = [ w \in AllWords |-> << >> ]
  /\ added = {}
  /\ wordbook = << >>
  /\ \E b \in QueueBudgets :
       /\ reviewsLeft = b.reviews
       /\ editsLeft = b.edits
       /\ ticksLeft = b.ticks
       /\ failuresLeft = b.failures
       /\ overlapsLeft = b.overlaps
  /\ Initialized
  /\ reviewedAt = [ w \in AllWords |-> NULL ]
  /\ state = InitialState

NextQueue ==
  \/ \E d \in QueueTickSteps : Tick(d)
  \/ \E w \in QueueWords, r \in QueueResults : ApplyCall(w, r)
  \/ \E c \in BagToSet(pending), ok \in BOOLEAN : ApplyRead(c, ok)
  \/ \E c \in BagToSet(pending), ok \in BOOLEAN : ApplyWrite(c, ok)
  \/ \E w \in QueueWords, t \in Translations : AddCall(w, t)
  \/ \E c \in BagToSet(pending), ok \in BOOLEAN : AddExists(c, ok)
  \/ \E c \in BagToSet(pending), ok \in BOOLEAN : AddInsert(c, ok)
  \/ \E w \in QueueWords, ok \in BOOLEAN : ClearReviewProgress(w, ok)
  \/ \E args \in QueueArguments : QueueCall(args.limit, args.onlyDue)
  \/ \E c \in BagToSet(pending), ok \in BOOLEAN : QueueRead(c, ok)

SpecQueue == InitQueue /\ [][NextQueue]_vars

\* -------------------------------------------------- review statistics
\* SELECT COUNT(*) FROM vocabulary v LEFT JOIN vocabulary_progress p
\* ON v.word = p.word WHERE p.next_review_at IS NULL OR p.next_review_at <= now
DueCount_Reviewed(now) ==
  Cardinality({ j \in Joined : j.p # {} /\ IsDue(j, now) })

DueCount(now) == Cardinality({ j \in Joined : IsDue(j, now) })

\* SELECT COUNT(*) FROM vocabulary
TotalCount == Cardinality(vocabulary)

\* SELECT COUNT(*) FROM vocabulary_progress WHERE proficiency >= 5
MasteredCount ==
  Cardinality({ p \in vocabulary_progress : p.proficiency >= 5 })

\* VocabularyManager.getReviewStatistics is entered: now is taken and the
\* first of the three queries is awaited.
StatsCall ==
  /\ editsLeft > 0
  /\ editsLeft' = editsLeft - 1
  /\ Suspend([ NoCall EXCEPT !.pc = "stats_due", !.op = "stats",
                             !.now = clock,
                             !.entryBefore = vocabulary,
                             !.progressBefore = vocabulary_progress ])
  /\ UNCHANGED << vocabulary, vocabulary_progress, clock, returned,
                  rememberRun, added, wordbook, reviewsLeft, ticksLeft,
                  failuresLeft >>
  /\ UNCHANGED initVars
  /\ UNCHANGED reviewedAt
  /\ UNCHANGED state

\* One of the three queries executes, each on the tables as they are then:
\* due, total, mastered. After the third the counts are returned; a query
\* that fails makes the call return { total: 0, due: 0, mastered: 0 }.
StatsRead(c, ok) ==
  /\ BagIn(c, pending)
  /\ c.pc \in {"stats_due", "stats_total", "stats_mastered"}
  /\ Query(c, ok)
  /\ LET mutated == \/ c.mutated
                    \/ vocabulary # c.entryBefore
                    \/ vocabulary_progress # c.progressBefore
         d == [ c EXCEPT !.mutated = mutated, !.ioError = ~ok ]
     IN IF ~ok
        THEN Return(c, [ d EXCEPT !.pc = "done", !.ret = "empty",
                                  !.stats = NoCall.stats ])
        ELSE IF c.pc = "stats_due"
        THEN /\ Resume(c, [ d EXCEPT !.pc = "stats_total",
                                     !.stats.due = DueCount(c.now) ])
             /\ UNCHANGED returned
        ELSE IF c.pc = "stats_total"
        THEN /\ Resume(c, [ d EXCEPT !.pc = "stats_mastered",
                                     !.stats.total = TotalCount ])
             /\ UNCHANGED returned
        ELSE Return(c, [ d EXCEPT !.pc = "done", !.ret = "value",
                                  !.stats.mastered = MasteredCount ])
  /\ UNCHANGED << vocabulary, vocabulary_progress, clock, rememberRun, added,
                  wordbook, reviewsLeft, editsLeft, ticksLeft, overlapsLeft >>
  /\ UNCHANGED initVars
  /\ UNCHANGED reviewedAt
  /\ UNCHANGED state

\* The progress row of a word after n "remember" results given at time now.
RECURSIVE Remembered(_, _, _)
Remembered(word, n, now) ==
  IF n = 0 THEN getDefaultProgress(word)
  ELSE UpdatedProgress(word, Remembered(word, n - 1, now), "remember", now)

\* What an earlier process left of a word in the database file: nothing,
\* an entry never reviewed, an entry forgotten once, or an entry mastered by
\* MAX_PROFICIENCY "remember" results.
Left == {"nothing", "new", "forgotten", "mastered"}
LeftProgress(word, left) ==
  IF left = "forgotten"
  THEN { UpdatedProgress(word, getDefaultProgress(word), "forget", 1) }
  ELSE IF left = "mastered" THEN { Remembered(word, MAX_PROFICIENCY, 1) }
  ELSE {}

InitStats ==
  /\ \E left \in [ StatsWords -> Left ] :
       /\ vocabulary =
            { [ word |-> w, translation |-> "tr", created_at |-> 1,
                updated_at |-> 1 ] :
                w \in { x \in StatsWords : left[x] # "nothing" } }
       /\ vocabulary_progress =
            UNION { LeftProgress(w, left[w]) : w \in StatsWords }
  /\ clock = 1
  /\ pending = EmptyBag
  /\ returned = NoCall
  /\ rememberRun = [ w \in AllWords |-> << >> ]
  /\ added = {}
  /\ wordbook = << >>
  /\ reviewsLeft = 0
  /\ editsLeft = MaxEdits
  /\ ticksLeft = MaxTicks
  /\ failuresLeft = MaxFailures
  /\ overlapsLeft = 0
  /\ Initialized
  /\ reviewedAt = [ w \in AllWords |-> NULL ]
  /\ state = InitialState

NextStats ==
  \/ \E d \in QueueTickSteps : Tick(d)
  \/ StatsCall
  \/ \E c \in BagToSet(pending), ok \in BOOLEAN : StatsRead(c, ok)
  \/ \E w \in StatsWords, ok \in BOOLEAN : RemoveVocabulary(w, ok)
  \/ \E ok \in BOOLEAN : ClearAllVocabulary(ok)

SpecStats == InitStats /\ [][NextStats]_vars

\* ------------------------------------------------------- initialization
\* if (this.initialized) return;
NeedsInitialization_Always == TRUE

NeedsInitialization == ~initialized

\* CREATE ... IF NOT EXISTS for each of the objects.
CreateIfNotExists(objects) ==
  schema (+) SetToBag({ o \in objects : ~BagIn(o, schema) })

\* The statement of an operation, awaited once its ensureInitialized is over.
QueryPc(op) == IF op = "queue" THEN "queue_read" ELSE "add_insert"

\* The awaits of ensureInitialized, in their order.
NextPc(pc) ==
  IF pc = "mkdir" THEN "create_table"
  ELSE IF pc = "create_table" THEN "create_index"
  ELSE IF pc = "create_index" THEN "create_progress"
  ELSE "initialized"

\* A public operation of the DatabaseManager is entered and awaits
\* ensureInitialized, which returns at once when initialized is set.
EnsureInitializedCall(c) ==
  /\ editsLeft > 0
  /\ editsLeft' = editsLeft - 1
  /\ Suspend([ c EXCEPT !.pc = IF NeedsInitialization THEN "mkdir"
                               ELSE QueryPc(c.op),
                       !.afterInit = initRuns > 0,
                       !.now = clock ])
  /\ UNCHANGED << vocabulary, vocabulary_progress, clock, returned,
                  rememberRun, added, wordbook, reviewsLeft, ticksLeft,
                  failuresLeft >>
  /\ UNCHANGED initVars
  /\ UNCHANGED reviewedAt
  /\ UNCHANGED state

\* DatabaseManager.addVocabulary(item)
DbAddVocabulary(w, t) ==
  EnsureInitializedCall([ NoCall EXCEPT !.op = "add", !.word = w,
                                        !.translation = t ])

\* DatabaseManager.getReviewQueue(50, true), as the review screen calls it
DbGetReviewQueue ==
  EnsureInitializedCall([ NoCall EXCEPT !.op = "queue",
                                        !.limit = Finite(500),
                                        !.onlyDue = TRUE,
                                        !.safeLimit = SafeLimit(Finite(500)) ])

\* An await of ensureInitialized is over: mkdir, or one of the three
\* executeWriteSQL. An error is caught and logged and the operation goes
\* on; after the third statement initialized is set.
EnsureInitialized(c, ok) ==
  /\ BagIn(c, pending)
  /\ c.pc \in {"mkdir", "create_table", "create_index", "create_progress"}
  /\ Access(ok)
  /\ IF ok
     THEN /\ schema' = CreateIfNotExists(Statement(c.pc))
          /\ initialized' = (initialized \/ NextPc(c.pc) = "initialized")
          /\ initRuns' = initRuns + IF NextPc(c.pc) = "initialized" THEN 1 ELSE 0
          /\ Resume(c, [ c EXCEPT !.pc = IF NextPc(c.pc) = "initialized"
                                         THEN QueryPc(c.op) ELSE NextPc(c.pc),
                                  !.issued = @ + Cardinality({c.pc} \ {"mkdir"}),
                                  !.now = clock ])
     ELSE /\ Resume(c, [ c EXCEPT !.pc = QueryPc(c.op), !.initFailed = TRUE,
                                  !.issued = @ + Cardinality({c.pc} \ {"mkdir"}),
                                  !.now = clock ])
          /\ UNCHANGED initVars
  /\ UNCHANGED << vocabulary, vocabulary_progress, clock, returned,
                  rememberRun, added, wordbook, reviewsLeft, editsLeft,
                  ticksLeft, overlapsLeft >>
  /\ UNCHANGED reviewedAt
  /\ UNCHANGED state

\* A process starts: initialized is not set; the database file is absent
\* or holds the schema and the entries an earlier process left.
InitInit ==
  /\ vocabulary = {}
  /\ vocabulary_progress = {}
  /\ clock = 1
  /\ pending = EmptyBag
  /\ returned = NoCall
  /\ rememberRun = [ w \in AllWords |-> << >> ]
  /\ added = {}
  /\ wordbook = << >>
  /\ reviewsLeft = 0
  /\ editsLeft = MaxEdits + 1
  /\ ticksLeft = 0
  /\ failuresLeft = MaxFailures
  /\ overlapsLeft = MaxOverlaps
  /\ initialized = FALSE
  /\ schema \in {EmptyBag, SetToBag(FullSchema)}
  /\ initRuns = 0
  /\ reviewedAt = [ w \in AllWords |-> NULL ]
  /\ state = InitialState

NextInit ==
  \/ \E w \in Words, t \in Translations : DbAddVocabulary(w, t)
  \/ DbGetReviewQueue
  \/ \E c \in BagToSet(pending), ok \in BOOLEAN : EnsureInitialized(c, ok)
  \/ \E c \in BagToSet(pending), ok \in BOOLEAN : AddInsert(c, ok)
  \/ \E c \in BagToSet(pending), ok \in BOOLEAN : QueueRead(c, ok)

SpecInit == InitInit /\ [][NextInit]_vars

\* ------------------------------------------------------ the review screen
\* The handlers of VocabularyReviewCommand that read or set queue, index,
\* isLoading and isProcessing; a handler reads the state of the latest
\* render, and every setState is rendered before the next handler runs.
\* const currentItem = state.queue[state.index]
HasCurrentItem == state.index < Len(state.queue)
CurrentItem == state.queue[state.index + 1]

\* loadQueue is entered by handler c: getReviewQueue(50, true) and
\* getReviewStatistics() are called, each taking its Date.now(), and
\* Promise.all of the two is awaited.
LoadQueue(c) ==
  [ c EXCEPT !.pc = "load", !.queuePc = "pending", !.statsPc = "stats_due",
             !.limit = Finite(500), !.onlyDue = TRUE,
             !.safeLimit = SafeLimit(Finite(500)), !.now = clock ]

\* An await of a loadQueue is over and has left handler c as d. When both
\* promises are settled loadQueue sets queue, stats, index: 0,
\* showAnswer: false, isLoading: false and isProcessing: false, and the
\* handler is over.
Loaded(c, d) ==
  IF d.queuePc = "done" /\ d.statsPc = "done"
  THEN /\ state' = [ queue |-> d.list, stats |-> {d.stats}, index |-> 0,
                     showAnswer |-> FALSE, isLoading |-> FALSE,
                     isProcessing |-> FALSE ]
       /\ Return(c, [ d EXCEPT !.pc = "done" ])
  ELSE /\ Resume(c, d)
       /\ UNCHANGED << state, returned >>

\* The query of the getReviewQueue of a loadQueue executes.
LoadQueueRead(c, ok) ==
  /\ BagIn(c, pending)
  /\ c.pc = "load" /\ c.queuePc = "pending"
  /\ Access(ok)
  /\ \E list \in getReviewQueue(c.limit, c.onlyDue, c.now, ok) :
       Loaded(c, [ c EXCEPT !.queuePc = "done", !.list = list ])
  /\ UNCHANGED << vocabulary, vocabulary_progress, clock, rememberRun, added,
                  wordbook, reviewsLeft, editsLeft, ticksLeft, overlapsLeft >>
  /\ UNCHANGED initVars
  /\ UNCHANGED reviewedAt

\* One of the three queries of the getReviewStatistics of a loadQueue
\* executes.
LoadStatsRead(c, ok) ==
  /\ BagIn(c, pending)
  /\ c.pc = "load"
  /\ c.statsPc \in {"stats_due", "stats_total", "stats_mastered"}
  /\ Access(ok)
  /\ Loaded(c, IF ~ok
               THEN [ c EXCEPT !.statsPc = "done", !.stats = NoCall.stats ]
               ELSE IF c.statsPc = "stats_due"
               THEN [ c EXCEPT !.statsPc = "stats_total",
                               !.stats.due = DueCount(c.now) ]
               ELSE IF c.statsPc = "stats_total"
               THEN [ c EXCEPT !.statsPc = "stats_mastered",
                               !.stats.total = TotalCount ]
               ELSE [ c EXCEPT !.statsPc = "done",
                               !.stats.mastered = MasteredCount ])
  /\ UNCHANGED << vocabulary, vocabulary_progress, clock, rememberRun, added,
                  wordbook, reviewsLeft, editsLeft, ticksLeft, overlapsLeft >>
  /\ UNCHANGED initVars
  /\ UNCHANGED reviewedAt

\* handleSkip
HandleSkip ==
  /\ ~state.isProcessing
  /\ state' = IF Len(state.queue) <= 1
              THEN [ state EXCEPT !.showAnswer = FALSE ]
              ELSE [ state EXCEPT !.index = (state.index + 1) % Len(state.queue),
                                  !.showAnswer = FALSE ]
  /\ UNCHANGED << vocabulary, vocabulary_progress, clock, pending, returned,
                  rememberRun, added, wordbook, reviewsLeft, editsLeft,
                  ticksLeft, failuresLeft, overlapsLeft >>
  /\ UNCHANGED initVars
  /\ UNCHANGED reviewedAt

\* handleReview(result): behind its guard it sets isProcessing and awaits
\* applyReviewResult(currentItem.word, result).
HandleReview(r) ==
  /\ HasCurrentItem /\ ~state.isProcessing
  /\ reviewsLeft > 0
  /\ reviewsLeft' = reviewsLeft - 1
  /\ state' = [ state EXCEPT !.isProcessing = TRUE ]
  /\ Suspend([ NoCall EXCEPT !.pc = "apply_read", !.op = "review",
                             !.word = CurrentItem.word, !.result = r ])
  /\ UNCHANGED << vocabulary, vocabulary_progress, clock, returned,
                  rememberRun, added, wordbook, editsLeft, ticksLeft,
                  failuresLeft >>
  /\ UNCHANGED initVars
  /\ UNCHANGED reviewedAt

\* The upsertReviewProgress of the applyReviewResult of a handleReview
\* executes, as in ApplyWrite; handleReview then awaits showToast.
ReviewWrite(c, ok) ==
  /\ BagIn(c, pending)
  /\ c.pc = "apply_write" /\ c.op = "review"
  /\ Access(ok)
  /\ LET stored == ProgressRows(c.word)
         success == ok /\ ForeignKeyHolds(c.word)
         d == [ c EXCEPT !.pc = "toast", !.ioError = c.ioError \/ ~ok,
                         !.entryBefore = VocabularyRows(c.word),
                         !.progressBefore = stored ]
     IN IF success
        THEN /\ vocabulary_progress' =
                  (vocabulary_progress \ stored) \cup {c.updatedProgress}
             /\ rememberRun' =
                  [ rememberRun EXCEPT ![c.word] =
                      NextRememberRun(rememberRun[c.word], stored, c.found,
                                      c.progress, c.result, c.updatedProgress) ]
             /\ reviewedAt' = [ reviewedAt EXCEPT ![c.word] = c.now ]
             /\ Resume(c, [ d EXCEPT !.ret = "value" ])
        ELSE /\ Resume(c, [ d EXCEPT !.ret = "undefined" ])
             /\ UNCHANGED << vocabulary_progress, rememberRun, reviewedAt >>
  /\ UNCHANGED << vocabulary, clock, returned, added, wordbook,
                  reviewsLeft, editsLeft, ticksLeft, overlapsLeft >>
  /\ UNCHANGED initVars
  /\ UNCHANGED state

\* The showToast of a handleReview is over. When the one of the try block
\* throws, the one of the catch block is awaited; after either, thrown or
\* not, the finally block enters loadQueue, which sets isLoading.
ReviewToast_NoFinally(c, ok) ==
  /\ BagIn(c, pending)
  /\ c.pc \in {"toast", "toast_catch"}
  /\ Access(ok)
  /\ IF c.pc = "toast" /\ ~ok
     THEN /\ Return(c, [ c EXCEPT !.pc = "done" ])
          /\ UNCHANGED state
     ELSE /\ state' = [ state EXCEPT !.isLoading = TRUE ]
          /\ Resume(c, LoadQueue(c))
          /\ UNCHANGED returned
  /\ UNCHANGED << vocabulary, vocabulary_progress, clock, rememberRun, added,
                  wordbook, reviewsLeft, editsLeft, ticksLeft, overlapsLeft >>
  /\ UNCHANGED initVars
  /\ UNCHANGED reviewedAt

ReviewToast(c, ok) ==
  /\ BagIn(c, pending)
  /\ c.pc \in {"toast", "toast_catch"}
  /\ Access(ok)
  /\ IF c.pc = "toast" /\ ~ok
     THEN /\ Resume(c, [ c EXCEPT !.pc = "toast_catch" ])
          /\ UNCHANGED state
     ELSE /\ state' = [ state EXCEPT !.isLoading = TRUE ]
          /\ Resume(c, LoadQueue(c))
  /\ UNCHANGED << vocabulary, vocabulary_progress, clock, returned,
                  rememberRun, added, wordbook, reviewsLeft, editsLeft,
                  ticksLeft, overlapsLeft >>
  /\ UNCHANGED initVars
  /\ UNCHANGED reviewedAt

\* handleRefresh: loadQueue is entered, whatever isProcessing is.
HandleRefresh ==
  /\ editsLeft > 0
  /\ editsLeft' = editsLeft - 1
  /\ state' = [ state EXCEPT !.isLoading = TRUE ]
  /\ Suspend(LoadQueue([ NoCall EXCEPT !.op = "refresh" ]))
  /\ UNCHANGED << vocabulary, vocabulary_progress, clock, returned,
                  rememberRun, added, wordbook, reviewsLeft, ticksLeft,
                  failuresLeft >>
  /\ UNCHANGED initVars
  /\ UNCHANGED reviewedAt

\* The sessions of the review screen: reviews and a refresh that overlap,
\* or a review with awaits that fail.
ScreenBudgets ==
  { [ reviews |-> MaxRacingReviews, edits |-> MaxEdits - 1, ticks |-> 0,
      failures |-> 0, overlaps |-> MaxOverlaps + 1 ],
    [ reviews |-> MaxRacingReviews - 1, edits |-> 0, ticks |-> 0,
      failures |-> MaxFailures, overlaps |-> 0 ] }

\* The sessions whose handlers are followed to their end: a review and a
\* refresh that overlap, or a review with awaits that fail.
FairBudgets ==
  { [ reviews |-> MaxRacingReviews - 1, edits |-> MaxEdits - 1, ticks |-> 0,
      failures |-> 0, overlaps |-> MaxOverlaps ],
    [ reviews |-> MaxRacingReviews - 1, edits |-> 0, ticks |-> 0,
      failures |-> MaxFailures, overlaps |-> 0 ] }

\* The command is opened on the entries an earlier process left, none of
\* them reviewed: the first render is done and its effect has entered
\* loadQueue. No time passes during the session.
ScreenOpened(budgets) ==
  /\ vocabulary =
       { [ word |-> w, translation |-> "tr", created_at |-> 1,
           updated_at |-> 1 ] : w \in QueueWords }
  /\ vocabulary_progress = {}
  /\ clock = 1
  /\ pending = SetToBag({ LoadQueue([ NoCall EXCEPT !.op = "mount" ]) })
  /\ returned = NoCall
  /\ rememberRun = [ w \in AllWords |-> << >> ]
  /\ added = {}
  /\ wordbook = << >>
  /\ \E b \in budgets :
       /\ reviewsLeft = b.reviews
       /\ editsLeft = b.edits
       /\ ticksLeft = b.ticks
       /\ failuresLeft = b.failures
       /\ overlapsLeft = b.overlaps
  /\ Initialized
  /\ reviewedAt = [ w \in AllWords |-> NULL ]
  /\ state = InitialState

InitScreen == ScreenOpened(ScreenBudgets)

\* The awaits of the handlers in flight.
ScreenAwaits ==
  \E c \in BagToSet(pending), ok \in BOOLEAN :
    \/ ApplyRead(c, ok)
    \/ ReviewWrite(c, ok)
    \/ ReviewToast(c, ok)
    \/ LoadQueueRead(c, ok)
    \/ LoadStatsRead(c, ok)

NextScreen ==
  \/ HandleSkip
  \/ \E r \in QueueResults : HandleReview(r)
  \/ HandleRefresh
  \/ \E c \in BagToSet(pending), ok \in BOOLEAN : ApplyRead(c, ok)
  \/ \E c \in BagToSet(pending), ok \in BOOLEAN : ReviewWrite(c, ok)
  \/ \E c \in BagToSet(pending), ok \in BOOLEAN : ReviewToast(c, ok)
  \/ \E c \in BagToSet(pending), ok \in BOOLEAN : LoadQueueRead(c, ok)
  \/ \E c \in BagToSet(pending), ok \in BOOLEAN : LoadStatsRead(c, ok)

SpecScreen == InitScreen /\ [][NextScreen]_vars

\* Every await is over in the end: the database statements and the toasts
\* terminate.
SpecScreenFair ==
  ScreenOpened(FairBudgets) /\ [][NextScreen]_vars /\ WF_vars(ScreenAwaits)

\* ------------------------------------------- the word list (text file)
\* items.sort((a, b) => b.timestamp - a.timestamp): newest first, items of
\* equal timestamp in the order they had.
InsertByTimestamp(sorted, item) ==
  LET k == Cardinality({ i \in 1..Len(sorted) :
                           sorted[i].timestamp >= item.timestamp })
  IN SubSeq(sorted, 1, k) \o << item >> \o SubSeq(sorted, k + 1, Len(sorted))

RECURSIVE SortByTimestamp(_)
SortByTimestamp(items) ==
  IF items = << >> THEN << >>
  ELSE InsertByTimestamp(SortByTimestamp(SubSeq(items, 1, Len(items) - 1)),
                         items[Len(items)])

\* getVocabularyList(): the lines of the file, sorted; [] when the read fails.
FileGetVocabularyList(ok) == IF ok THEN SortByTimestamp(wordbook) ELSE << >>

\* items.some((v) => v.word.toLowerCase() === word.toLowerCase())
SomeSameWord(items, word) ==
  \E i \in 1..Len(items) : toLowerCase(items[i].word) = toLowerCase(word)

\* items.filter((item) => item.word.toLowerCase() !== word.toLowerCase())
FilterOtherWords(items, word) ==
  LET Other(item) == toLowerCase(item.word) # toLowerCase(word)
  IN SelectSeq(items, Other)

\* The items of a list, and those of the file that hold exactly `word`.
Items(list) == { list[i] : i \in 1..Len(list) }
WordbookItems(word) == { item \in Items(wordbook) : item.word = word }

\* addVocabulary is entered: getVocabularyList is awaited.
FileAddCall(w, t) ==
  /\ editsLeft > 0
  /\ Suspend([ NoCall EXCEPT !.pc = "file_add_read", !.op = "file_add",
                             !.word = w, !.translation = t ])
  /\ editsLeft' = editsLeft - 1
  /\ UNCHANGED << vocabulary, vocabulary_progress, clock, returned,
                  rememberRun, added, wordbook, reviewsLeft, ticksLeft,
                  failuresLeft >>
  /\ UNCHANGED initVars
  /\ UNCHANGED reviewedAt
  /\ UNCHANGED state

\* The list is back: false if some item has the word, whatever the case;
\* otherwise the item gets timestamp Date.now() and the append is awaited.
FileAddRead(c, ok) ==
  /\ BagIn(c, pending)
  /\ c.pc = "file_add_read"
  /\ Access(ok)
  /\ IF SomeSameWord(FileGetVocabularyList(ok), c.word)
     THEN Return(c, [ c EXCEPT !.pc = "done", !.ret = "false" ])
     ELSE /\ Resume(c, [ c EXCEPT !.pc = "file_add_write", !.now = clock,
                                  !.ioError = ~ok ])
          /\ UNCHANGED returned
  /\ UNCHANGED << vocabulary, vocabulary_progress, clock, rememberRun, added,
                  wordbook, reviewsLeft, editsLeft, ticksLeft, overlapsLeft >>
  /\ UNCHANGED initVars
  /\ UNCHANGED reviewedAt
  /\ UNCHANGED state

\* writeFile(path, line, { flag: "a" }) executes.
FileAddWrite(c, ok) ==
  /\ BagIn(c, pending)
  /\ c.pc = "file_add_write"
  /\ Access(ok)
  /\ LET item == [ word |-> c.word, translation |-> c.translation,
                   timestamp |-> c.now ]
         d == [ c EXCEPT !.pc = "done", !.ioError = c.ioError \/ ~ok,
                         !.entryBefore = WordbookItems(c.word) ]
     IN IF ok
        THEN /\ wordbook' = Append(wordbook, item)
             /\ Return(c, [ d EXCEPT !.ret = "true" ])
        ELSE /\ Return(c, [ d EXCEPT !.ret = "false" ])
             /\ UNCHANGED wordbook
  /\ UNCHANGED << vocabulary, vocabulary_progress, clock, rememberRun, added,
                  reviewsLeft, editsLeft, ticksLeft, overlapsLeft >>
  /\ UNCHANGED initVars
  /\ UNCHANGED reviewedAt
  /\ UNCHANGED state

\* removeVocabulary is entered: getVocabularyList is awaited.
FileRemoveCall(w) ==
  /\ editsLeft > 0
  /\ Suspend([ NoCall EXCEPT !.pc = "file_remove_read", !.op = "file_remove",
                             !.word = w ])
  /\ editsLeft' = editsLeft - 1
  /\ UNCHANGED << vocabulary, vocabulary_progress, clock, returned,
                  rememberRun, added, wordbook, reviewsLeft, ticksLeft,
                  failuresLeft >>
  /\ UNCHANGED initVars
  /\ UNCHANGED reviewedAt
  /\ UNCHANGED state

\* The list is back: the items of other words are kept and the rewrite of
\* the whole file is awaited.
FileRemoveRead(c, ok) ==
  /\ BagIn(c, pending)
  /\ c.pc = "file_remove_read"
  /\ Access(ok)
  /\ Resume(c, [ c EXCEPT !.pc = "file_remove_write",
                          !.ioError = ~ok,
                          !.filteredItems =
                             FilterOtherWords(FileGetVocabularyList(ok), c.word) ])
  /\ UNCHANGED << vocabulary, vocabulary_progress, clock, returned,
                  rememberRun, added, wordbook, reviewsLeft, editsLeft,
                  ticksLeft, overlapsLeft >>
  /\ UNCHANGED initVars
  /\ UNCHANGED reviewedAt
  /\ UNCHANGED state

\* writeFile(path, content, "utf8") executes: the file becomes filteredItems.
FileRemoveWrite(c, ok) ==
  /\ BagIn(c, pending)
  /\ c.pc = "file_remove_write"
  /\ Access(ok)
  /\ LET d == [ c EXCEPT !.pc = "done", !.ioError = c.ioError \/ ~ok,
                         !.entryBefore = WordbookItems(c.word) ]
     IN IF ok
        THEN /\ wordbook' = c.filteredItems
             /\ Return(c, [ d EXCEPT !.ret = "true" ])
        ELSE /\ Return(c, [ d EXCEPT !.ret = "false" ])
             /\ UNCHANGED wordbook
  /\ UNCHANGED << vocabulary, vocabulary_progress, clock, rememberRun, added,
                  reviewsLeft, editsLeft, ticksLeft, overlapsLeft >>
  /\ UNCHANGED initVars
  /\ UNCHANGED reviewedAt
  /\ UNCHANGED state

\* isVocabularyExists(word), called on its own.
FileIsVocabularyExists(w, ok) ==
  /\ Access(ok)
  /\ returned' =
       [ NoCall EXCEPT !.pc = "done", !.op = "file_exists", !.word = w,
                       !.ioError = ~ok,
                       !.ret = IF SomeSameWord(FileGetVocabularyList(ok), w)
                               THEN "true" ELSE "false" ]
  /\ UNCHANGED << vocabulary, vocabulary_progress, clock, pending, rememberRun,
                  added, wordbook, reviewsLeft, editsLeft, ticksLeft,
                  overlapsLeft >>
  /\ UNCHANGED initVars
  /\ UNCHANGED reviewedAt
  /\ UNCHANGED state

InitFile ==
  /\ vocabulary = {}
  /\ vocabulary_progress = {}
  /\ clock = 1
  /\ pending = EmptyBag
  /\ returned = NoCall
  /\ rememberRun = [ w \in AllWords |-> << >> ]
  /\ added = {}
  /\ wordbook = << >>
  /\ reviewsLeft = 0
  /\ editsLeft = MaxEdits + 1
  /\ ticksLeft = MaxTicks
  /\ failuresLeft = MaxFailures
  /\ overlapsLeft = MaxOverlaps
  /\ Initialized
  /\ reviewedAt = [ w \in AllWords |-> NULL ]
  /\ state = InitialState

NextFile ==
  \/ \E d \in TickSteps : Tick(d)
  \/ \E w \in Spellings, t \in Translations : FileAddCall(w, t)
  \/ \E c \in BagToSet(pending), ok \in BOOLEAN : FileAddRead(c, ok)
  \/ \E c \in BagToSet(pending), ok \in BOOLEAN : FileAddWrite(c, ok)
  \/ \E w \in Spellings : FileRemoveCall(w)
  \/ \E c \in BagToSet(pending), ok \in BOOLEAN : FileRemoveRead(c, ok)
  \/ \E c \in BagToSet(pending), ok \in BOOLEAN : FileRemoveWrite(c, ok)
  \/ \E w \in Spellings, ok \in BOOLEAN : FileIsVocabularyExists(w, ok)

SpecFile == InitFile /\ [][NextFile]_vars

\* -------------------------------------- the word list (better-sqlite3)
\* The DatabaseManager over better-sqlite3: every operation is one
\* synchronous statement on the table vocabulary (it has no progress table).
\* addVocabulary(item): INSERT OR REPLACE, true when result.changes > 0.
NativeAddVocabulary(w, t, ok) ==
  /\ editsLeft > 0
  /\ Access(ok)
  /\ LET gone == VocabularyRows(w)
         row == [ word |-> w, translation |-> t,
                  created_at |-> clock, updated_at |-> clock ]
         changes == 1
         c == [ NoCall EXCEPT !.pc = "done", !.op = "native_add", !.word = w,
                              !.translation = t, !.now = clock,
                              !.ioError = ~ok, !.entryBefore = gone,
                              !.entryAtCall = gone ]
     IN IF ok
        THEN /\ vocabulary' = (vocabulary \ gone) \cup {row}
             /\ returned' = [ c EXCEPT !.ret = IF changes > 0 THEN "true"
                                               ELSE "false" ]
        ELSE /\ returned' = [ c EXCEPT !.ret = "false" ]
             /\ UNCHANGED vocabulary
  /\ editsLeft' = editsLeft - 1
  /\ UNCHANGED << vocabulary_progress, clock, pending, rememberRun, added,
                  wordbook, reviewsLeft, ticksLeft, overlapsLeft >>
  /\ UNCHANGED initVars
  /\ UNCHANGED reviewedAt
  /\ UNCHANGED state

\* removeVocabulary(word): DELETE ... WHERE word = ?, true when
\* result.changes > 0.
NativeRemoveVocabulary(w, ok) ==
  /\ editsLeft > 0
  /\ Access(ok)
  /\ LET gone == VocabularyRows(w)
         changes == Cardinality(gone)
         c == [ NoCall EXCEPT !.pc = "done", !.op = "native_remove",
                              !.word = w, !.ioError = ~ok,
                              !.entryBefore = gone ]
     IN IF ok
        THEN /\ vocabulary' = vocabulary \ gone
             /\ returned' = [ c EXCEPT !.ret = IF changes > 0 THEN "true"
                                               ELSE "false" ]
        ELSE /\ returned' = [ c EXCEPT !.ret = "false" ]
             /\ UNCHANGED vocabulary
  /\ editsLeft' = editsLeft - 1
  /\ UNCHANGED << vocabulary_progress, clock, pending, rememberRun, added,
                  wordbook, reviewsLeft, ticksLeft, overlapsLeft >>
  /\ UNCHANGED initVars
  /\ UNCHANGED reviewedAt
  /\ UNCHANGED state

\* isVocabularyExists(word): COUNT(*) > 0, false when it throws.
NativeIsVocabularyExists(w, ok) ==
  /\ Access(ok)
  /\ returned' =
       [ NoCall EXCEPT !.pc = "done", !.op = "native_exists", !.word = w,
                       !.ioError = ~ok,
                       !.entryBefore = VocabularyRows(w),
                       !.ret = IF isVocabularyExists(w, ok) THEN "true"
                               ELSE "false" ]
  /\ UNCHANGED << vocabulary, vocabulary_progress, clock, pending, rememberRun,
                  added, wordbook, reviewsLeft, editsLeft, ticksLeft,
                  overlapsLeft >>
  /\ UNCHANGED initVars
  /\ UNCHANGED reviewedAt
  /\ UNCHANGED state

\* clearAllVocabulary(): DELETE FROM vocabulary, true when
\* result.changes >= 0.
NativeClearAllVocabulary(ok) ==
  /\ editsLeft > 0
  /\ Access(ok)
  /\ LET changes == Cardinality(vocabulary)
         c == [ NoCall EXCEPT !.pc = "done", !.op = "native_clearAll",
                              !.ioError = ~ok, !.entryBefore = vocabulary ]
     IN IF ok
        THEN /\ vocabulary' = {}
             /\ returned' = [ c EXCEPT !.ret = IF changes >= 0 THEN "true"
                                               ELSE "false" ]
        ELSE /\ returned' = [ c EXCEPT !.ret = "false" ]
             /\ UNCHANGED vocabulary
  /\ editsLeft' = editsLeft - 1
  /\ UNCHANGED << vocabulary_progress, clock, pending, rememberRun, added,
                  wordbook, reviewsLeft, ticksLeft, overlapsLeft >>
  /\ UNCHANGED initVars
  /\ UNCHANGED reviewedAt
  /\ UNCHANGED state

InitNative ==
  /\ vocabulary = {}
  /\ vocabulary_progress = {}
  /\ clock = 1
  /\ pending = EmptyBag
  /\ returned = NoCall
  /\ rememberRun = [ w \in AllWords |-> << >> ]
  /\ added = {}
  /\ wordbook = << >>
  /\ reviewsLeft = 0
  /\ editsLeft = MaxEdits + 1
  /\ ticksLeft = MaxTicks
  /\ failuresLeft = MaxFailures
  /\ overlapsLeft = 0
  /\ Initialized
  /\ reviewedAt = [ w \in AllWords |-> NULL ]
  /\ state = InitialState

NextNative ==
  \/ \E d \in TickSteps : Tick(d)
  \/ \E w \in Spellings, t \in Translations, ok \in BOOLEAN :
       NativeAddVocabulary(w, t, ok)
  \/ \E w \in Spellings, ok \in BOOLEAN : NativeRemoveVocabulary(w, ok)
  \/ \E w \in Spellings, ok \in BOOLEAN : NativeIsVocabularyExists(w, ok)
  \/ \E ok \in BOOLEAN : NativeClearAllVocabulary(ok)

SpecNative == InitNative /\ [][NextNative]_vars

\* ================================================================ claims
\* The applyReviewResult calls that have built their updatedProgress: those
\* suspended at the upsert, and the last call returned if it is one.
Computed ==
  { c \in BagToSet(pending) \cup {returned} :
      c.op = "apply" /\ c.pc \in {"apply_write", "done"} }

\* The ladder as the specification states it: 5 min, 12 h, 1 day, 3 days,
\* 7 days, 30 days (in seconds).
Ladder == << 300, 43200, 86400, 259200, 604800, 2592000 >>

\* C1: the stored proficiency of every word is within [0, 5], whatever
\* outcomes were applied since its progress was absent.
C1_ProficiencyInRange ==
  \A r \in vocabulary_progress : r.proficiency >= 0 /\ r.proficiency <= 5

\* C1 witness: a result was applied to a word already at proficiency 5 and
\* the stored proficiency is still 5.
C1_Witness ==
  /\ returned.op = "apply" /\ returned.ret = "value"
  /\ returned.found /\ returned.progress.proficiency = 5
  /\ \E r \in vocabulary_progress : r.word = returned.word /\ r.proficiency = 5

\* C2: every stored progress row has successCount + failCount = reviewCount.
C2_CountsAddUp ==
  \A r \in vocabulary_progress : r.successCount + r.failCount = r.reviewCount

\* C2 witness: a row that counts successes and failures, stored by a call
\* that overlapped another call.
C2_Witness ==
  /\ returned.op = "apply" /\ returned.ret = "value"
  /\ pending # EmptyBag
  /\ \E r \in vocabulary_progress :
       r.word = returned.word /\ r.successCount >= 1 /\ r.failCount >= 1

\* C3: the new proficiency is min(p + 1, 5) for remember, min(p + 1, 5) for
\* hard and max(p - 1, 0) for forget, p being the proficiency read (0 when
\* no progress row was found).
C3_NewProficiency ==
  \A c \in Computed :
    LET p == c.progress.proficiency
        q == c.updatedProgress.proficiency
    IN /\ ~c.found => p = 0
       /\ p \in 0..5
       /\ c.result = "remember" => q = (IF p + 1 <= 5 THEN p + 1 ELSE 5)
       /\ c.result = "hard" => q = (IF p + 1 <= 5 THEN p + 1 ELSE 5)
       /\ c.result = "forget" => q = (IF p - 1 >= 0 THEN p - 1 ELSE 0)

\* C3 witness: "hard" was applied to a word read at proficiency 5.
C3_Witness ==
  /\ returned.op = "apply" /\ returned.ret = "value"
  /\ returned.result = "hard"
  /\ returned.found /\ returned.progress.proficiency = 5

\* C4: nextReviewAt = now + ladder[i], i = 0 for forget and min(new
\* proficiency, 5) otherwise; proficiency 3 with forget gives proficiency 2,
\* now + 5 min and one more failure.
C4_NextReviewAt ==
  \A c \in Computed :
    LET u == c.updatedProgress
        i == IF c.result = "forget" THEN 0
             ELSE IF u.proficiency <= 5 THEN u.proficiency ELSE 5
    IN /\ u.nextReviewAt = c.now + Ladder[i + 1]
       /\ (c.progress.proficiency = 3 /\ c.result = "forget") =>
             /\ u.proficiency = 2
             /\ u.nextReviewAt = c.now + 300
             /\ u.failCount = c.progress.failCount + 1

\* C4 witness: forget was applied to a word read at proficiency 3.
C4_Witness ==
  /\ returned.op = "apply" /\ returned.ret = "value"
  /\ returned.result = "forget"
  /\ returned.progress.proficiency = 3

\* C5: a successful applyReviewResult stores the progress it read with
\* reviewCount + 1, successCount + 1 iff the outcome is not forget,
\* failCount + 1 iff it is forget, and lastReviewedAt = the time of the call.
C5_Counters ==
  /\ \A c \in Computed :
       LET u == c.updatedProgress
       IN /\ u.reviewCount = c.progress.reviewCount + 1
          /\ u.successCount - c.progress.successCount =
                (IF c.result = "forget" THEN 0 ELSE 1)
          /\ u.failCount - c.progress.failCount =
                (IF c.result = "forget" THEN 1 ELSE 0)
          /\ u.lastReviewedAt = c.now
          /\ c.now >= 1 /\ c.now <= clock
  /\ (returned.op = "apply" /\ returned.ret = "value") =>
        ProgressRows(returned.word) = {returned.updatedProgress}

\* C5 witness: a forget result was stored, after the clock had advanced, on
\* top of a row that had reviews.
C5_Witness ==
  /\ returned.op = "apply" /\ returned.ret = "value"
  /\ returned.result = "forget"
  /\ returned.progress.reviewCount >= 1
  /\ returned.now > 1

\* C6: three remember results in a row, from a word with no progress, give
\* proficiency 1, 2, 3 and intervals of 12 h, 1 day, 3 days.
C6_ThreeRemembers ==
  \A w \in Words :
    \A k \in 1..Len(rememberRun[w]) :
      rememberRun[w][k] = << << 1, 43200 >>, << 2, 86400 >>, << 3, 259200 >> >>[k]

\* C6 witness: a word whose progress comes from three remember results.
C6_Witness ==
  \E w \in Words :
    /\ Len(rememberRun[w]) = 3
    /\ \E r \in vocabulary_progress : r.word = w /\ r.reviewCount = 3

C9_HardSooner ==
  \A c \in Computed :
    c.result = "hard" =>
      c.updatedProgress.nextReviewAt <
        UpdatedProgress(c.word, c.progress, "remember", c.now).nextReviewAt

\* C10 (as claimed): from one state to the next, the stored reviewCount,
\* successCount and failCount of a word do not decrease.
C10_CountersNeverDecrease ==
  [][ \A r \in vocabulary_progress :
        \A s \in vocabulary_progress' :
          s.word = r.word =>
            /\ s.reviewCount >= r.reviewCount
            /\ s.successCount >= r.successCount
            /\ s.failCount >= r.failCount ]_vars

\* C11 (as claimed): a review-result update is an atomic read-modify-write.
\* When applyReviewResult calls for the same word overlap and succeed, none
\* of their updates is lost: each call that read the progress without
\* error stores a reviewCount one above that of the row it replaces, so
\* two of them leave the count 2 higher.
C11_NoLostUpdate ==
  ( /\ returned.op = "apply" /\ returned.ret = "value"
    /\ ~returned.ioError
    /\ returned.progressBefore # {} )
  => \A r \in returned.progressBefore :
       returned.updatedProgress.reviewCount = r.reviewCount + 1

\* C12: after a successful removeVocabulary(w) of an entry that has a
\* progress row, getReviewProgress(w) answers undefined: the progress row
\* went with the entry.
C12_RemoveDeletesProgress ==
  (returned.op = "remove" /\ returned.ret = "true")
  => \A ok \in BOOLEAN : getReviewProgress(returned.word, ok) = {}

\* C12 witness: a stored entry with a progress row was removed.
C12_Witness ==
  /\ returned.op = "remove" /\ returned.ret = "true"
  /\ returned.entryBefore # {} /\ returned.progressBefore # {}
  /\ getReviewProgress(returned.word, TRUE) = {}

\* C13: in every reachable state every progress row belongs to a word that
\* has a vocabulary entry, also when applyReviewResult interleaves with
\* removeVocabulary or clearAllVocabulary or is called for a word that was
\* never added.
C13_NoOrphanProgress ==
  \A r \in vocabulary_progress : VocabularyRows(r.word) # {}

\* C13 witness: an applyReviewResult call read the progress of a stored
\* word, the entry was deleted while the call was suspended, and its upsert
\* was rejected without any I/O error.
C13_Witness ==
  /\ returned.op = "apply" /\ returned.ret = "undefined"
  /\ ~returned.ioError
  /\ returned.found /\ returned.entryBefore = {}
  /\ ProgressRows(returned.word) = {}

\* C15: when addVocabulary(w) has returned true and no removeVocabulary
\* or clearAllVocabulary call was made afterwards, isVocabularyExists(w)
\* returns true (for a read that does not fail: a failed read is answered
\* false whatever is stored).
C15_AddedExists ==
  (returned.op = "exists" /\ ~returned.ioError /\ returned.word \in added)
  => returned.ret = "true"

\* C15 witness: the existence of an added word was asked and answered true.
C15_Witness ==
  /\ returned.op = "exists" /\ ~returned.ioError
  /\ returned.word \in added
  /\ returned.ret = "true"

\* C16 (as claimed): addVocabulary for a word that is stored when the call
\* is made, and still when it returns, returns false and leaves the entry
\* and its progress row as they were.
C16_AddOfStoredWord ==
  ( /\ returned.op = "add"
    /\ returned.entryAtCall # {}
    /\ returned.entryBefore = returned.entryAtCall )
  => /\ returned.ret = "false"
     /\ VocabularyRows(returned.word) = returned.entryAtCall
     /\ ProgressRows(returned.word) = returned.progressBefore

\* C17 (as claimed): the existence check of addVocabulary ignores letter
\* case, so no two stored entries have words that differ only in case.
C17_NoCaseTwins ==
  \A a \in vocabulary : \A b \in vocabulary :
    toLowerCase(a.word) = toLowerCase(b.word) => a.word = b.word

\* C18 (as claimed): from one state to the next, an entry that stays stored
\* keeps its created_at, whatever operation is executed.
C18_CreatedAtSetOnce ==
  [][ \A v \in vocabulary :
        \A u \in vocabulary' :
          u.word = v.word => u.created_at = v.created_at ]_vars

\* The three removeVocabulary of the word list: sqlite3 CLI, text file,
\* better-sqlite3.
RemoveOps == {"remove", "file_remove", "native_remove"}

\* C14 (as claimed): in every reachable state the store holds one entry per
\* word and at most one progress row per word, whatever add, remove,
\* clearAll and applyReviewResult calls were made and however they
\* interleaved.
C14_OneEntryPerWord ==
  /\ \A a \in vocabulary : \A b \in vocabulary : a.word = b.word => a = b
  /\ \A a \in vocabulary_progress :
       \A b \in vocabulary_progress : a.word = b.word => a = b
  /\ \A i \in 1..Len(wordbook) :
       \A j \in 1..Len(wordbook) :
         wordbook[i].word = wordbook[j].word => i = j

\* C19 (as claimed): a removeVocabulary(w) that meets no I/O error while w
\* is not stored returns true and leaves the store as it was.
C19_RemoveOfMissingWord ==
  [][ ( /\ returned'.op \in RemoveOps
        /\ ~returned'.ioError
        /\ returned'.entryBefore = {} )
      => /\ returned'.ret = "true"
         /\ vocabulary' = vocabulary
         /\ vocabulary_progress' = vocabulary_progress
         /\ Items(wordbook') = Items(wordbook) ]_vars

\* C20 (as claimed): removeVocabulary(w) deletes nothing but the entry whose
\* word is exactly w: from one state to the next, the entries and progress
\* rows of every other word, one that differs from w only in case
\* included, are still there when a removeVocabulary(w) has returned, also
\* when it overlapped an add or its read of the store failed.
C20_RemoveOnlyExactWord ==
  [][ returned'.op \in RemoveOps
      => /\ \A v \in vocabulary :
              v.word # returned'.word => v \in vocabulary'
         /\ \A r \in vocabulary_progress :
              r.word # returned'.word => r \in vocabulary_progress'
         /\ \A item \in Items(wordbook) :
              item.word # returned'.word => item \in Items(wordbook') ]_vars

\* C21: adding a vocabulary entry never creates a progress row. From one
\* state to the next, a word without progress row gets one only in the step
\* in which an applyReviewResult for that word returns its updatedProgress,
\* and the row is that updatedProgress.
C21_ProgressOnlyFromReview ==
  [][ \A r \in vocabulary_progress' :
        ProgressRows(r.word) = {}
        => /\ returned'.op = "apply" /\ returned'.ret = "value"
           /\ returned'.word = r.word
           /\ r = returned'.updatedProgress ]_vars

\* C21 witness: addVocabulary stored an entry and returned true, and the
\* word has no progress row.
C21_Witness ==
  /\ returned.op = "add" /\ returned.ret = "true"
  /\ VocabularyRows(returned.word) # {}
  /\ ProgressRows(returned.word) = {}

\* C22 (as claimed): from one state to the next, the progress row of a word
\* disappears only in a removeVocabulary, clearAllVocabulary or
\* clearReviewProgress; no other operation, addVocabulary included,
\* destroys it.
C22_ProgressKept ==
  [][ \A r \in vocabulary_progress :
        (\A s \in vocabulary_progress' : s.word # r.word)
        => returned'.op \in {"remove", "clearAll", "clearProgress"} ]_vars

\* C23: after a successful clearAllVocabulary, getVocabularyCount() is 0,
\* getVocabularyList() is empty and no progress row remains for any word.
C23_ClearAllEmpties ==
  (returned.op = "clearAll" /\ returned.ret = "true")
  => /\ getVocabularyCount(TRUE) = 0
     /\ getVocabularyList(TRUE) = { << >> }
     /\ vocabulary_progress = {}

\* C23 witness: clearAllVocabulary succeeded on a store that held an entry
\* with a progress row, and the store is empty.
C23_Witness ==
  /\ returned.op = "clearAll" /\ returned.ret = "true"
  /\ returned.entryBefore # {} /\ returned.progressBefore # {}
  /\ getVocabularyCount(TRUE) = 0
  /\ vocabulary_progress = {}

\* The calls in flight and the call that returned last.
Calls == BagToSet(pending) \cup {returned}

\* C24: ensureInitialized is idempotent: a call made after a run that did
\* the whole initialization issues no schema statement, and whatever the
\* number of runs the schema holds each object of one run once.
C24_EnsureIdempotent ==
  /\ \A c \in Calls : c.afterInit => c.issued = 0 /\ ~c.initFailed
  /\ initRuns > 0 => initialized /\ schema = SetToBag(FullSchema)

\* An operation called after the initialization has returned its result
\* without issuing a schema statement.
C24_Witness ==
  /\ returned.afterInit
  /\ returned.ret \in {"true", "value"}
  /\ returned.issued = 0
  /\ schema = SetToBag(FullSchema)

\* C25: the whole initialization (tables, indices and the cascade rule) is
\* done at most once per process, also when operations call
\* ensureInitialized before the first call has finished.
C25_InitializedAtMostOnce == initRuns <= 1

QueueReturned == returned.op = "queue" /\ ~returned.ioError
QueueList == returned.list
QueueJoined ==
  { [ v |-> v, p |-> { r \in returned.progressBefore : r.word = v.word } ] :
      v \in returned.entryBefore }
Listed(word) == \E i \in DOMAIN QueueList : QueueList[i].word = word
ItemKey(item) ==
  IF item.nextReviewAt = NULL THEN item.timestamp ELSE item.nextReviewAt

\* C27: a review queue read with onlyDue at time T holds only entries whose
\* nextReviewAt is absent or <= T and at most the clamped limit of them, and
\* an entry without a progress row is in it unless the limit cut it off.
C27_OnlyDue ==
  (QueueReturned /\ returned.onlyDue)
  => /\ \A i \in DOMAIN QueueList :
          \/ QueueList[i].nextReviewAt = NULL
          \/ QueueList[i].nextReviewAt <= returned.now
     /\ Len(QueueList) <= returned.safeLimit
     /\ returned.safeLimit \in 1..200
     /\ \A j \in QueueJoined :
          j.p = {} => Listed(j.v.word) \/ Len(QueueList) = returned.safeLimit

\* A queue read with onlyDue that left out an entry not yet due and holds
\* an entry that was never reviewed.
C27_Witness ==
  /\ QueueReturned /\ returned.onlyDue
  /\ \E j \in QueueJoined :
       /\ j.p # {}
       /\ \A r \in j.p : r.nextReviewAt > returned.now
       /\ ~Listed(j.v.word)
  /\ \E j \in QueueJoined : j.p = {} /\ Listed(j.v.word)

\* C28: the rows of a review queue are in ascending order of
\* coalesce(nextReviewAt, createdAt), rows of equal key with the larger
\* createdAt first, and a row the limit cut off comes after every row
\* returned in that order.
C28_QueueOrder ==
  QueueReturned
  => /\ \A i \in DOMAIN QueueList : \A k \in DOMAIN QueueList :
          i < k => \/ ItemKey(QueueList[i]) < ItemKey(QueueList[k])
                   \/ /\ ItemKey(QueueList[i]) = ItemKey(QueueList[k])
                      /\ QueueList[i].timestamp >= QueueList[k].timestamp
     /\ \A j \in QueueJoined :
          (~Listed(j.v.word) /\ (returned.onlyDue => IsDue(j, returned.now)))
          => /\ Len(QueueList) = returned.safeLimit
             /\ \A i \in DOMAIN QueueList :
                  \/ ItemKey(QueueList[i]) < ItemKey(ReviewItem(j))
                  \/ /\ ItemKey(QueueList[i]) = ItemKey(ReviewItem(j))
                     /\ QueueList[i].timestamp >= j.v.created_at

\* A queue of two rows of equal key and different createdAt.
C28_Witness ==
  /\ QueueReturned
  /\ Len(QueueList) = 2
  /\ ItemKey(QueueList[1]) = ItemKey(QueueList[2])
  /\ QueueList[1].timestamp > QueueList[2].timestamp

\* C29: the limit a review queue uses is in [1, 200]: 1 for a requested
\* limit below 1, 200 for one above 200, 20 for a non-finite one and 20
\* when the limit is omitted; the queue is never longer than it.
C29_ClampedLimit ==
  returned.op = "queue"
  => /\ returned.safeLimit \in 1..200
     /\ (returned.limit.kind = "finite" /\ returned.limit.tenths < 10)
        => returned.safeLimit = 1
     /\ (returned.limit.kind = "finite" /\ returned.limit.tenths > 2000)
        => returned.safeLimit = 200
     /\ returned.limit.kind \in {"NaN", "Infinity", "undefined"}
        => returned.safeLimit = 20
     /\ Len(QueueList) <= returned.safeLimit

\* A queue asked for with a limit below 1 that holds one row of several.
C29_Witness ==
  /\ QueueReturned
  /\ returned.limit.kind = "finite" /\ returned.limit.tenths < 10
  /\ Len(QueueList) = 1
  /\ Cardinality(QueueJoined) > 1

\* C30: an entry without a progress row is in the queue with proficiency 0,
\* reviewCount 0, successCount 0, failCount 0 and no nextReviewAt, and
\* without onlyDue every entry is in the queue unless the limit cut it off.
C30_UnreviewedDefaults ==
  QueueReturned
  => /\ \A i \in DOMAIN QueueList :
          (\A r \in returned.progressBefore : r.word # QueueList[i].word)
          => /\ QueueList[i].proficiency = 0
             /\ QueueList[i].reviewCount = 0
             /\ QueueList[i].successCount = 0
             /\ QueueList[i].failCount = 0
             /\ QueueList[i].nextReviewAt = NULL
     /\ ~returned.onlyDue
        => /\ \A j \in QueueJoined :
                Listed(j.v.word) \/ Len(QueueList) = returned.safeLimit
           /\ Len(QueueList) =
                Min(returned.safeLimit, Cardinality(returned.entryBefore))

\* A queue read without onlyDue that holds an entry never reviewed and an
\* entry not yet due.
C30_Witness ==
  /\ QueueReturned /\ ~returned.onlyDue
  /\ \E i \in DOMAIN QueueList :
       \A r \in returned.progressBefore : r.word # QueueList[i].word
  /\ \E i \in DOMAIN QueueList : QueueList[i].nextReviewAt > returned.now

\* The statistics a call returned.
StatsReturned == returned.op = "stats" /\ ~returned.ioError
Near(a, b) == a - b \in {-1, 0, 1}

\* C31: statistics read while no table changes hold total = the number of
\* entries, due = the number of entries whose nextReviewAt is absent or
\* <= now, and mastered = the number of progress rows of proficiency >= 5.
C31_Statistics ==
  (StatsReturned /\ ~returned.mutated)
  => /\ returned.stats.total = Cardinality(returned.entryBefore)
     /\ returned.stats.due =
          Cardinality({ j \in QueueJoined :
                          \A r \in j.p : \/ r.nextReviewAt = NULL
                                         \/ r.nextReviewAt <= returned.now })
     /\ returned.stats.mastered =
          Cardinality({ p \in returned.progressBefore : p.proficiency >= 5 })

\* Statistics of three entries, two of them due and one mastered.
C31_Witness ==
  /\ StatsReturned /\ ~returned.mutated
  /\ returned.stats = [ total |-> 3, due |-> 2, mastered |-> 1 ]

\* C32: the three counts of statistics read under concurrent mutation
\* differ by at most 1 from the counts of a single store state, that is,
\* from counts with due <= total and mastered <= total.
C32_OffByOne ==
  StatsReturned
  => \E total \in 0..Cardinality(StatsWords) :
       \E due \in 0..total : \E mastered \in 0..total :
         /\ Near(returned.stats.total, total)
         /\ Near(returned.stats.due, due)
         /\ Near(returned.stats.mastered, mastered)

\* A step in which a call of operation op returns.
Returns(op) ==
  /\ BagCardinality(pending') < BagCardinality(pending)
  /\ returned'.op = op

\* C34: when upsertReviewProgress fails, applyReviewResult returns undefined
\* and leaves every progress row as it was; it returns the new progress
\* only when the write succeeded, and the row is stored then.
C34_FailedPersist ==
  [][ Returns("apply")
      => /\ returned'.ret \in {"value", "undefined"}
         /\ (failuresLeft' < failuresLeft \/ ~ForeignKeyHolds(returned'.word))
            => /\ returned'.ret = "undefined"
               /\ vocabulary_progress' = vocabulary_progress
         /\ returned'.ret = "value"
            => /\ failuresLeft' = failuresLeft
               /\ returned'.updatedProgress \in vocabulary_progress'
         /\ returned'.ret = "undefined"
            => vocabulary_progress' = vocabulary_progress ]_vars

\* applyReviewResult returned undefined because its write failed, for a
\* stored entry with a progress row, which is still stored.
C34_Witness ==
  /\ returned.op = "apply" /\ returned.ret = "undefined"
  /\ returned.ioError
  /\ returned.entryBefore # {}
  /\ returned.progressBefore # {}
  /\ ProgressRows(returned.word) = returned.progressBefore

\* C35: a failed read of an existing progress row does not reset the
\* progress: what applyReviewResult stores is computed from the row that
\* was stored when it read, never from the default progress.
C35_FailedReadKeepsProgress ==
  ( /\ returned.op = "apply" /\ returned.ret = "value"
    /\ returned.progressAtRead # {} )
  => \A r \in returned.progressAtRead :
       returned.updatedProgress =
         UpdatedProgress(returned.word, ReadProgress(r), returned.result,
                         returned.now)

\* The progress row of word w that the last applyReviewResult to return its
\* value stored is still stored, with the entry of w.
StillStored(w) ==
  /\ VocabularyRows(w) # {}
  /\ \E r \in ProgressRows(w) : r.lastReviewedAt = reviewedAt[w]

\* C36 as stated: after applyReviewResult(w) returned its value at time t,
\* a queue read with onlyDue at a time before t + 5 min does not hold w;
\* and, w being neither reviewed again, cleared nor removed, a queue read
\* at or after its nextReviewAt holds w unless the limit cut it off.
C36_AbsentThenDue ==
  [][ (Returns("queue") /\ ~returned'.ioError /\ returned'.onlyDue)
      => \A w \in AllWords :
           reviewedAt[w] # NULL
           => /\ returned'.now < reviewedAt[w] + 5 * 60
                 => \A i \in DOMAIN returned'.list : returned'.list[i].word # w
              /\ ( /\ StillStored(w)
                   /\ \A r \in ProgressRows(w) : returned'.now >= r.nextReviewAt )
                 => \/ \E i \in DOMAIN returned'.list : returned'.list[i].word = w
                    \/ Len(returned'.list) = returned'.safeLimit ]_vars

\* C36: the same, for a queue read while the progress row that the call
\* stored is still stored, that is, w was neither reviewed again, cleared,
\* removed nor added again in between.
C36_AbsentWhileStored ==
  [][ (Returns("queue") /\ ~returned'.ioError /\ returned'.onlyDue)
      => \A w \in AllWords :
           (reviewedAt[w] # NULL /\ StillStored(w))
           => /\ returned'.now < reviewedAt[w] + 5 * 60
                 => \A i \in DOMAIN returned'.list : returned'.list[i].word # w
              /\ (\A r \in ProgressRows(w) : returned'.now >= r.nextReviewAt)
                 => \/ \E i \in DOMAIN returned'.list : returned'.list[i].word = w
                    \/ Len(returned'.list) = returned'.safeLimit ]_vars

\* A queue read with onlyDue holds a word again whose review is due, after
\* the word was reviewed and its interval has passed.
C36_Witness ==
  /\ QueueReturned /\ returned.onlyDue
  /\ \E w \in QueueWords :
       /\ reviewedAt[w] # NULL
       /\ \E r \in returned.progressBefore :
            /\ r.word = w /\ r.lastReviewedAt = reviewedAt[w]
            /\ returned.now >= r.nextReviewAt
       /\ Listed(w)

\* C37: of two overlapping add calls for a word at most one returns true:
\* an add that returns true for a word that was not stored when it was
\* called does not find, when it inserts, an entry that another add wrote
\* and returned true for in between.
C37_OneAddWins ==
  ( /\ returned.op = "add" /\ returned.ret = "true"
    /\ ~returned.ioError
    /\ returned.entryAtCall = {} )
  => returned.entryBefore = {}

\* The handleReview calls in flight, and those of them that are awaiting
\* applyReviewResult.
Reviews == { c \in BagToSet(pending) : c.op = "review" }
Applying == { c \in Reviews : c.pc \in {"apply_read", "apply_write"} }

\* C33: every handleReview that starts ends, and it ends in the reload of
\* the due queue and the statistics by loadQueue, whether the result was
\* saved or not and whether a toast threw or not, which leaves
\* isProcessing and isLoading false and index 0.
C33_ReviewReloads ==
  /\ [][ Returns("review")
         => /\ returned'.queuePc = "done" /\ returned'.statsPc = "done"
            /\ state'.queue = returned'.list
            /\ state'.stats = {returned'.stats}
            /\ ~state'.isProcessing /\ ~state'.isLoading
            /\ state'.index = 0 ]_vars
  /\ [](Reviews # {} => <>(Reviews = {}))

\* A handleReview whose result was not saved has ended in the reload.
C33_Witness ==
  /\ returned.op = "review" /\ returned.ret = "undefined"
  /\ returned.queuePc = "done" /\ returned.statsPc = "done"
  /\ Reviews = {}
  /\ ~state.isProcessing /\ ~state.isLoading /\ state.index = 0

\* C38: at most one review result is being applied at a time: no two
\* handleReview calls are awaiting applyReviewResult together.
C38_OneReviewAtATime ==
  \A c \in Applying : CopiesIn(c, pending) = 1 /\ Applying = {c}

====
